---- MODULE Spec2Model ----
(***************************************************************************)
(* Model of the voice recorder of magic-minutes: the session registry      *)
(* (activeRecordings), the per-participant capture pipelines, the stop     *)
(* path with its force-close timers, reconnect handling and the            *)
(* processing of the captured audio (conversion, chunking, transcription). *)
(* The program modelled is the latest iteration of commands/voice.js       *)
(* (src/unnamed/part_003).  Behaviour of @discordjs/voice and of Node's    *)
(* streams that the code relies on is stated where it is used.             *)
(***************************************************************************)
EXTENDS Integers, Sequences, FiniteSets, TLC

\* ------------------------------------------------------------------ bounds
MaxSessions == 2      \* session records created in one run
MaxStops    == 1      \* stopRecording calls (with their processing) in flight at once
MaxStopsRace == 2     \* the same where stop requests race (SpecStops)
MaxCaptures == 2      \* participant captures opened in one run, over all sessions
MaxSuspended == 1     \* speaking handlers suspended in mkdir at once
MaxSuspendedRace == 2 \* the same where the handlers race (SpecOrder)
MaxBytes    == 1      \* raw-audio file size is counted up to this
MaxChunks   == 2      \* segment files a split may produce

\* ------------------------------------------------------- program constants
MAX_RECONNECT_ATTEMPTS == 3

Guilds == {"g1", "g2"}
Users  == {"u1", "u2"}
SessionIds == 1..MaxSessions
StopIds == 1..MaxStopsRace

Absent == -1          \* size of a file that does not exist
Silent == <<"none">>  \* a step that emits nothing

VARIABLES
  activeRecordings,   \* guild -> session id registered for it, 0 if none
  nSessions,          \* session records (recordingData) created so far
  guildOf,            \* session -> its guildId
  connOf,             \* session -> its connection object (id of the creating session)
  connDestroyed,      \* connection objects that have been destroyed
  audioStreams,       \* session -> participants, one per capture opened, in order
  ws,                 \* session -> participant -> state of the write stream
  flushIntervals,     \* session -> participants with an armed flush timer
  reconnectAttempts,  \* session -> failed recoveries counted
  voiceStateHandler,  \* session -> voiceStateUpdate listener installed
  exhausted,          \* sessions torn down by reconnect exhaustion
  dirs,               \* guilds whose recordings directory exists
  mkdirWait,          \* speaking handlers suspended in mkdir: <<session, user>>
  files,              \* guild -> participant -> size of user_<id>_full.pcm
  joining,            \* guild -> start requests suspended before joinVoiceChannel
  stopReq,            \* stop slot -> the stopRecording call (and its processRecordings) in it
  stopped,            \* sessions whose stop has run to its end
  mp3,                \* <<guild, user>> whose user_<id>_merged.mp3 exists
  out,                \* what the last step emitted (reply, notice, log, call)
  tx,                 \* the transcribeAudio call being followed
  call,               \* the call of a helper function being followed
  partFiles,          \* <<guild, user, i>> whose user_<id>_merged_part_<i>.mp3 exists
  spoke               \* session -> participants in the order of their first
                      \* speaking-start event that passed the registry check

vars == <<activeRecordings, nSessions, guildOf, connOf, connDestroyed,
          audioStreams, ws, flushIntervals, reconnectAttempts,
          voiceStateHandler, exhausted, dirs, mkdirWait, files, joining,
          stopReq, stopped, mp3, out, tx, call, partFiles, spoke>>

sessVars == <<nSessions, guildOf, connOf>>
capVars  == <<audioStreams, ws>>
callVars == <<tx, call>>

\* ----------------------------------------------------------------- helpers
Live(s) == s \in 1..nSessions

Range(q) == {q[i] : i \in 1..Len(q)}

\* writeStream.destroyed: true after 'finish' (autoDestroy) or destroy()
Destroyed(s, u) == ws[s][u] \in {"closed", "destroyed"}

\* streamActive: the pipeline callback has not run yet
StreamActive(s, u) == ws[s][u] \in {"open", "ending"}

\* the spec's ParticipantCapture state, read off the write stream
CaptureState(s, u) ==
  CASE ws[s][u] = "none"   -> "None"
    [] ws[s][u] = "open"   -> "Capturing"
    [] ws[s][u] = "ending" -> "Finalizing"
    [] OTHER               -> "Closed"

\* getVoiceConnection(guildId): the guild's connection that is not destroyed, 0 if none
GetVoiceConnection(g) ==
  LET cs == {connOf[s] : s \in {t \in 1..nSessions : guildOf[t] = g}} \ connDestroyed
  IN IF cs = {} THEN 0 ELSE CHOOSE c \in cs : TRUE

Pending == joining["g1"] + joining["g2"]

RECURSIVE SumLen(_)
SumLen(n) == IF n = 0 THEN 0 ELSE Len(audioStreams[n]) + SumLen(n - 1)
Captures == SumLen(MaxSessions)

\* a stop slot not in use
IdleStop == [pc |-> "idle", g |-> "g1", rd |-> 0, conn |-> 0, fin |-> {},
             order |-> <<>>, idx |-> 0, mode |-> "-", nCh |-> 0, ci |-> 0,
             shouldChunkProactively |-> FALSE, got |-> <<>>, allTx |-> <<>>,
             failed |-> 0]

\* no transcribeAudio call is being followed
IdleTx == [pc |-> "idle", attempt |-> 0, errs |-> <<>>, waits |-> <<>>,
           result |-> "-"]

\* no helper function is being followed
NoCall == [fn |-> "none"]

\* the recorder after the module is loaded
InitRecorder ==
  /\ activeRecordings = [g \in Guilds |-> 0]
  /\ nSessions = 0
  /\ guildOf = [s \in SessionIds |-> "g1"]
  /\ connOf = [s \in SessionIds |-> 0]
  /\ connDestroyed = {}
  /\ audioStreams = [s \in SessionIds |-> <<>>]
  /\ ws = [s \in SessionIds |-> [u \in Users |-> "none"]]
  /\ flushIntervals = [s \in SessionIds |-> {}]
  /\ reconnectAttempts = [s \in SessionIds |-> 0]
  /\ voiceStateHandler = [s \in SessionIds |-> FALSE]
  /\ exhausted = {}
  /\ dirs = {}
  /\ mkdirWait = {}
  /\ files = [g \in Guilds |-> [u \in Users |-> Absent]]
  /\ joining = [g \in Guilds |-> 0]
  /\ stopReq = [k \in StopIds |-> IdleStop]
  /\ stopped = {}
  /\ mp3 = {}
  /\ out = Silent
  /\ tx = IdleTx
  /\ partFiles = {}
  /\ spoke = [s \in SessionIds |-> <<>>]

Init == InitRecorder /\ call = NoCall

\* ------------------------------------------------------------ startRecording
\* startRecording without its existence check
StartCheck_NoCheck(g) ==
  /\ nSessions + Pending < MaxSessions
  /\ joining' = [joining EXCEPT ![g] = @ + 1]
  /\ out' = <<"joining", g>>
  /\ UNCHANGED <<callVars, partFiles, spoke, activeRecordings, sessVars, connDestroyed, capVars, flushIntervals,
                 reconnectAttempts, voiceStateHandler, exhausted,
                 dirs, mkdirWait, files, stopReq, stopped, mp3>>

\* The existence check (lines 74-79) and, if the guild is free, the status
\* reply (line 82) that suspends the request before it joins.
StartCheck(g) ==
  /\ IF activeRecordings[g] # 0
       THEN /\ out' = <<"alreadyRecording", g>>
            /\ UNCHANGED joining
       ELSE /\ nSessions + Pending < MaxSessions
            /\ joining' = [joining EXCEPT ![g] = @ + 1]
            /\ out' = <<"joining", g>>
  /\ UNCHANGED <<callVars, partFiles, spoke, activeRecordings, sessVars, connDestroyed, capVars, flushIntervals,
                 reconnectAttempts, voiceStateHandler, exhausted,
                 dirs, mkdirWait, files, stopReq, stopped, mp3>>

\* Lines 85-276: joinVoiceChannel, the new recordingData, its insertion into the
\* registry and the installation of the handlers.  joinVoiceChannel hands back
\* the guild's existing connection when it has one that is not destroyed.
\* The 'Started recording' reply (line 273) is awaited inside the try block:
\* if it is rejected (replied is FALSE) the catch block (lines 277-286) reports
\* the failure, and undoes nothing.
StartJoin(g, replied) ==
  /\ joining[g] > 0
  /\ LET s == nSessions + 1
         c == GetVoiceConnection(g)
     IN /\ nSessions' = s
        /\ guildOf' = [guildOf EXCEPT ![s] = g]
        /\ connOf' = [connOf EXCEPT ![s] = IF c = 0 THEN s ELSE c]
        /\ activeRecordings' = [activeRecordings EXCEPT ![g] = s]
        /\ voiceStateHandler' = [voiceStateHandler EXCEPT ![s] = TRUE]
        /\ out' = IF replied THEN <<"started", g, s>> ELSE <<"startFailed", g, s>>
  /\ joining' = [joining EXCEPT ![g] = @ - 1]
  /\ UNCHANGED <<callVars, partFiles, spoke, connDestroyed, capVars, flushIntervals, reconnectAttempts,
                 exhausted, dirs, mkdirWait, files, stopReq, stopped, mp3>>

\* joinVoiceChannel throws: the catch block (lines 277-286) reports the
\* failure; no session record has been created (0)
StartJoinFail(g) ==
  /\ joining[g] > 0
  /\ joining' = [joining EXCEPT ![g] = @ - 1]
  /\ out' = <<"startFailed", g, 0>>
  /\ UNCHANGED <<callVars, partFiles, spoke, activeRecordings, sessVars, connDestroyed, capVars, flushIntervals,
                 reconnectAttempts, voiceStateHandler, exhausted,
                 dirs, mkdirWait, files, stopReq, stopped, mp3>>

\* ------------------------------------------------- speaking 'start' handler
\* the handler without its duplicate-subscription guard
OpenCapture_NoGuard(s, u) ==
  /\ Captures < MaxCaptures
  /\ audioStreams' = [audioStreams EXCEPT ![s] = Append(@, u)]
  /\ ws' = [ws EXCEPT ![s][u] = "open"]
  /\ flushIntervals' = [flushIntervals EXCEPT ![s] = @ \cup {u}]
  /\ files' = [files EXCEPT ![guildOf[s]][u] = IF @ = Absent THEN 0 ELSE @]
  /\ out' = Silent

\* Lines 151-254: the duplicate-subscription guard and, for a participant not
\* yet tracked, the write stream (append mode), the subscription, the decoder,
\* the pipeline, the flush timer and the audioStreams entry.
OpenCapture(s, u) ==
  IF u \in Range(audioStreams[s])
    THEN /\ out' = <<"subscriptionActive", s, u>>
         /\ UNCHANGED <<capVars, flushIntervals, files>>
    ELSE /\ Captures < MaxCaptures
         /\ audioStreams' = [audioStreams EXCEPT ![s] = Append(@, u)]
         /\ ws' = [ws EXCEPT ![s][u] = "open"]
         /\ flushIntervals' = [flushIntervals EXCEPT ![s] = @ \cup {u}]
         /\ files' = [files EXCEPT ![guildOf[s]][u] = IF @ = Absent THEN 0 ELSE @]
         /\ out' = Silent

\* the first event of a participant that passes the registry check
FirstSpoke(s, u) ==
  IF u \in Range(spoke[s]) THEN spoke ELSE [spoke EXCEPT ![s] = Append(@, u)]

\* A speaking-start event delivered to the handler a session installed on its
\* connection: the registry check (line 144), then mkdir (a suspension) when
\* the recordings directory is missing, else the capture is opened at once.
\* n bounds the handlers suspended in mkdir.
SpeakingStartUpTo(s, u, n) ==
  /\ Live(s)
  /\ connOf[s] \notin connDestroyed
  /\ IF activeRecordings[guildOf[s]] = 0
       THEN /\ out' = Silent
            /\ UNCHANGED <<capVars, flushIntervals, files, mkdirWait, spoke>>
       ELSE /\ spoke' = FirstSpoke(s, u)
            /\ IF guildOf[s] \notin dirs
                 THEN /\ Cardinality(mkdirWait \cup {<<s, u>>}) <= n
                      /\ mkdirWait' = mkdirWait \cup {<<s, u>>}
                      /\ out' = Silent
                      /\ UNCHANGED <<capVars, flushIntervals, files>>
                 ELSE /\ OpenCapture(s, u)
                      /\ UNCHANGED mkdirWait
  /\ UNCHANGED <<callVars, partFiles, activeRecordings, sessVars, connDestroyed,
                 reconnectAttempts, voiceStateHandler, exhausted, dirs, joining,
                 stopReq, stopped, mp3>>

SpeakingStart(s, u) == SpeakingStartUpTo(s, u, MaxSuspended)

\* The handler resumes after mkdir.  (An event for a participant who already
\* has a handler suspended there joins it: resumed second, it would find the
\* capture the first has opened.)
SpeakingResume(s, u) ==
  /\ <<s, u>> \in mkdirWait
  /\ mkdirWait' = mkdirWait \ {<<s, u>>}
  /\ dirs' = dirs \cup {guildOf[s]}
  /\ OpenCapture(s, u)
  /\ UNCHANGED <<callVars, partFiles, spoke, activeRecordings, sessVars, connDestroyed, reconnectAttempts,
                 voiceStateHandler, exhausted, joining, stopReq, stopped, mp3>>

\* A decoded frame reaches the write stream.  A file unlinked while the
\* stream is open is not recreated by later writes.
AudioFrame(s, u) ==
  /\ Live(s)
  /\ connOf[s] \notin connDestroyed
  /\ ws[s][u] = "open"
  /\ files' = [files EXCEPT ![guildOf[s]][u] =
                 IF @ = Absent THEN Absent ELSE IF @ < MaxBytes THEN @ + 1 ELSE @]
  /\ out' = Silent
  /\ UNCHANGED <<callVars, partFiles, spoke, activeRecordings, sessVars, connDestroyed, capVars, flushIntervals,
                 reconnectAttempts, voiceStateHandler, exhausted,
                 dirs, mkdirWait, joining, stopReq, stopped, mp3>>

\* The pipeline callback (lines 211-224): streamActive off, flush timer cleared
PipelineEnded(s, u) == [flushIntervals EXCEPT ![s] = @ \ {u}]

\* The write stream finishes after end(): 'finish', then destroyed by autoDestroy
WriteFinish(s, u) ==
  /\ Live(s)
  /\ ws[s][u] = "ending"
  /\ ws' = [ws EXCEPT ![s][u] = "closed"]
  /\ flushIntervals' = PipelineEnded(s, u)
  /\ out' = Silent
  /\ UNCHANGED <<callVars, partFiles, spoke, activeRecordings, sessVars, connDestroyed, audioStreams,
                 reconnectAttempts, voiceStateHandler, exhausted,
                 dirs, mkdirWait, files, joining, stopReq, stopped, mp3>>

\* a force-close timer that never fires
ForceClose_Never(s, u) == FALSE /\ UNCHANGED vars

\* The force-close timer set beside every writeStream.end() (lines 341-346,
\* 733-738) fires: a stream that has not finished is destroyed, and the
\* pipeline calls back.  On a destroyed stream the timer does nothing.
ForceClose(s, u) ==
  /\ Live(s)
  /\ ws[s][u] = "ending"
  /\ ws' = [ws EXCEPT ![s][u] = "destroyed"]
  /\ flushIntervals' = PipelineEnded(s, u)
  /\ out' = <<"forceClosed", s, u>>
  /\ UNCHANGED <<callVars, partFiles, spoke, activeRecordings, sessVars, connDestroyed, audioStreams,
                 reconnectAttempts, voiceStateHandler, exhausted, dirs, mkdirWait,
                 files, joining, stopReq, stopped, mp3>>

\* a pipeline error that takes the whole session down: every capture of the
\* session destroyed, its flush timers cleared, the registry entry deleted and
\* the connection destroyed
PipelineError_AbortAll(s, u) ==
  /\ Live(s)
  /\ StreamActive(s, u)
  /\ ws' = [ws EXCEPT ![s] = [v \in Users |-> IF ws[s][v] \in {"open", "ending"}
                                                THEN "destroyed" ELSE ws[s][v]]]
  /\ flushIntervals' = [flushIntervals EXCEPT ![s] = {}]
  /\ activeRecordings' = [activeRecordings EXCEPT ![guildOf[s]] = 0]
  /\ connDestroyed' = connDestroyed \cup {connOf[s]}
  /\ out' = <<"pipelineError", s, u>>
  /\ UNCHANGED <<callVars, partFiles, spoke, sessVars, audioStreams, reconnectAttempts, voiceStateHandler,
                 exhausted, dirs, mkdirWait, files, joining, stopReq, stopped, mp3>>

\* An error of the subscription, the decoder or the write stream: pipeline()
\* destroys the streams of that participant and calls back
PipelineError(s, u) ==
  /\ Live(s)
  /\ StreamActive(s, u)
  /\ ws' = [ws EXCEPT ![s][u] = "destroyed"]
  /\ flushIntervals' = PipelineEnded(s, u)
  /\ out' = <<"pipelineError", s, u>>
  /\ UNCHANGED <<callVars, partFiles, spoke, activeRecordings, sessVars, connDestroyed, audioStreams,
                 reconnectAttempts, voiceStateHandler, exhausted,
                 dirs, mkdirWait, files, joining, stopReq, stopped, mp3>>

\* a subscription that ends after a silence (EndBehaviorType.AfterSilence):
\* the receive stream ends, and the pipeline ends the write stream
SilenceElapsed_AfterSilence(s, u) ==
  /\ Live(s)
  /\ ws[s][u] = "open"
  /\ ws' = [ws EXCEPT ![s][u] = "ending"]
  /\ out' = <<"silence", s, u>>
  /\ UNCHANGED <<callVars, partFiles, spoke, activeRecordings, sessVars, connDestroyed, audioStreams,
                 flushIntervals, reconnectAttempts, voiceStateHandler, exhausted,
                 dirs, mkdirWait, files, joining, stopReq, stopped, mp3>>

\* The participant stays silent for any length of time: the subscription was
\* made with EndBehaviorType.Manual (lines 168-170), so the receive stream does
\* not end and nothing else watches for silence
SilenceElapsed(s, u) ==
  /\ Live(s)
  /\ ws[s][u] = "open"
  /\ out' = <<"silence", s, u>>
  /\ UNCHANGED <<callVars, partFiles, spoke, activeRecordings, sessVars, connDestroyed, capVars, flushIntervals,
                 reconnectAttempts, voiceStateHandler, exhausted,
                 dirs, mkdirWait, files, joining, stopReq, stopped, mp3>>

\* The periodic flush timer (lines 227-241): cork/uncork while the stream is
\* active, else the timer clears itself
FlushTick(s, u) ==
  /\ u \in flushIntervals[s]
  /\ IF StreamActive(s, u)
       THEN /\ out' = Silent
            /\ UNCHANGED flushIntervals
       ELSE /\ out' = Silent
            /\ flushIntervals' = [flushIntervals EXCEPT ![s] = @ \ {u}]
  /\ UNCHANGED <<callVars, partFiles, spoke, activeRecordings, sessVars, connDestroyed, capVars,
                 reconnectAttempts, voiceStateHandler, exhausted, dirs, mkdirWait,
                 files, joining, stopReq, stopped, mp3>>

\* ------------------------------------------------------ finalizeUserRecording
\* writeStream.end(), with its force-close timer, unless the stream is destroyed
EndStream(w, s, u) == [w EXCEPT ![s][u] = IF Destroyed(s, u) THEN @ ELSE "ending"]

\* a voice-state listener that leaves the capture of a participant who left
\* to the stop command
UserLeft_Deferred(s, u) ==
  /\ Live(s)
  /\ voiceStateHandler[s]
  /\ out' = <<"left", s, u>>
  /\ UNCHANGED <<callVars, partFiles, spoke, activeRecordings, sessVars, connDestroyed, capVars,
                 flushIntervals, reconnectAttempts, voiceStateHandler, exhausted,
                 dirs, mkdirWait, files, joining, stopReq, stopped, mp3>>

\* a finalization that also takes the participant out of the session's map
UserLeft_Forget(s, u) ==
  /\ Live(s)
  /\ voiceStateHandler[s]
  /\ IF activeRecordings[guildOf[s]] # 0 /\ u \in Range(audioStreams[s])
       THEN /\ flushIntervals' = [flushIntervals EXCEPT ![s] = @ \ {u}]
            /\ ws' = EndStream(ws, s, u)
            /\ audioStreams' = [audioStreams EXCEPT
                                  ![s] = SelectSeq(@, LAMBDA v : v # u)]
            /\ out' = <<"finalizing", s, u>>
       ELSE /\ out' = <<"left", s, u>>
            /\ UNCHANGED <<flushIntervals, ws, audioStreams>>
  /\ UNCHANGED <<callVars, partFiles, spoke, activeRecordings, sessVars, connDestroyed,
                 reconnectAttempts, voiceStateHandler, exhausted, dirs, mkdirWait,
                 files, joining, stopReq, stopped, mp3>>

\* voiceStateHandler (lines 258-269): a participant leaves the recorded
\* channel.  Without a registry entry or without a capture of that participant
\* the listener returns; else finalizeUserRecording (lines 712-743) runs up to
\* its promise: flush timer cleared, end() called with its force-close timer.
UserLeft(s, u) ==
  /\ Live(s)
  /\ voiceStateHandler[s]
  /\ IF activeRecordings[guildOf[s]] # 0 /\ u \in Range(audioStreams[s])
       THEN /\ flushIntervals' = [flushIntervals EXCEPT ![s] = @ \ {u}]
            /\ ws' = EndStream(ws, s, u)
            /\ out' = <<"finalizing", s, u>>
       ELSE /\ out' = <<"left", s, u>>
            /\ UNCHANGED <<flushIntervals, ws>>
  /\ UNCHANGED <<callVars, partFiles, spoke, activeRecordings, sessVars, connDestroyed, audioStreams,
                 reconnectAttempts, voiceStateHandler, exhausted, dirs, mkdirWait,
                 files, joining, stopReq, stopped, mp3>>

\* ------------------------------------------------------- connection handlers
\* connection.destroy() runs the Destroyed handler (lines 128-140) of every
\* session that installed one on the connection
SessionsOn(c) == {s \in 1..nSessions : connOf[s] = c}
FlushAfterDestroy(c, fl) ==
  [s \in SessionIds |-> IF s \in SessionsOn(c) THEN {} ELSE fl[s]]
ListenerAfterDestroy(c, vsh) ==
  [s \in SessionIds |-> IF s \in SessionsOn(c) THEN FALSE ELSE vsh[s]]

\* a Disconnected handler that clears the counter when the connection recovers
ReconnectOk_Reset(s) ==
  /\ Live(s)
  /\ connOf[s] \notin connDestroyed
  /\ reconnectAttempts' = [reconnectAttempts EXCEPT ![s] = 0]
  /\ out' = Silent
  /\ UNCHANGED <<callVars, partFiles, spoke, activeRecordings, sessVars, connDestroyed, capVars, flushIntervals,
                 voiceStateHandler, exhausted,
                 dirs, mkdirWait, files, joining, stopReq, stopped, mp3>>

\* Disconnected handler (lines 107-126), reconnect() resolves in time
ReconnectOk(s) ==
  /\ Live(s)
  /\ connOf[s] \notin connDestroyed
  /\ out' = Silent
  /\ UNCHANGED <<callVars, partFiles, spoke, activeRecordings, sessVars, connDestroyed, capVars, flushIntervals,
                 reconnectAttempts, voiceStateHandler, exhausted,
                 dirs, mkdirWait, files, joining, stopReq, stopped, mp3>>

\* Disconnected handler, reconnect() rejects or the 5 s timeout wins the race:
\* the counter is advanced, or at the ceiling the connection is destroyed and
\* the guild's registry entry deleted
ReconnectFail(s) ==
  /\ Live(s)
  /\ connOf[s] \notin connDestroyed
  /\ IF reconnectAttempts[s] < MAX_RECONNECT_ATTEMPTS
       THEN /\ reconnectAttempts' = [reconnectAttempts EXCEPT ![s] = @ + 1]
            /\ out' = Silent
            /\ UNCHANGED <<connDestroyed, flushIntervals, voiceStateHandler,
                           activeRecordings, exhausted>>
       ELSE /\ connDestroyed' = connDestroyed \cup {connOf[s]}
            /\ flushIntervals' = FlushAfterDestroy(connOf[s], flushIntervals)
            /\ voiceStateHandler' = ListenerAfterDestroy(connOf[s], voiceStateHandler)
            /\ activeRecordings' = [activeRecordings EXCEPT ![guildOf[s]] = 0]
            /\ exhausted' = exhausted \cup {s}
            /\ out' = <<"maxReconnect", s>>
            /\ UNCHANGED reconnectAttempts
  /\ UNCHANGED <<callVars, partFiles, spoke, sessVars, capVars, dirs, mkdirWait, files, joining,
                 stopReq, stopped, mp3>>

\* ------------------------------------------------------------- stopRecording
FreeStop ==
  CHOOSE k \in StopIds :
    stopReq[k].pc = "idle" /\ \A j \in 1..(k-1) : stopReq[j].pc # "idle"

\* a stopRecording without its check for a connection or a registry entry
StopCheck_NoCheck(g) ==
  /\ Cardinality({k \in StopIds : stopReq[k].pc # "idle"}) < MaxStops
  /\ stopReq' = [stopReq EXCEPT ![FreeStop] =
                   [IdleStop EXCEPT !.pc = "stopping", !.g = g,
                                    !.rd = activeRecordings[g],
                                    !.conn = GetVoiceConnection(g)]]
  /\ out' = <<"stopping", g>>
  /\ UNCHANGED <<callVars, partFiles, spoke, activeRecordings, sessVars, connDestroyed, capVars,
                 flushIntervals, reconnectAttempts, voiceStateHandler,
                 exhausted, dirs, mkdirWait, files, joining, stopped, mp3>>

\* Lines 290-308: the connection and the registry entry are read; with neither
\* the request is answered 'No active recording', else the status reply
\* suspends it.  n bounds the stopRecording calls in flight.
StopCheckUpTo(g, n) ==
  LET c  == GetVoiceConnection(g)
      rd == activeRecordings[g]
  IN /\ IF c = 0 /\ rd = 0
          THEN /\ out' = <<"noActiveRecording", g>>
               /\ UNCHANGED stopReq
          ELSE /\ Cardinality({k \in StopIds : stopReq[k].pc # "idle"}) < n
               /\ stopReq' = [stopReq EXCEPT ![FreeStop] =
                                [IdleStop EXCEPT !.pc = "stopping", !.g = g,
                                                 !.rd = rd, !.conn = c]]
               /\ out' = <<"stopping", g>>
     /\ UNCHANGED <<callVars, partFiles, spoke, activeRecordings, sessVars, connDestroyed, capVars,
                    flushIntervals, reconnectAttempts, voiceStateHandler,
                    exhausted, dirs, mkdirWait, files, joining, stopped, mp3>>

StopCheck(g) == StopCheckUpTo(g, MaxStops)

\* a stop that empties the registry instead of deleting its guild's entry
Teardown_ClearAll(k, vsh, fl) ==
  LET r == stopReq[k]
  IN /\ connDestroyed' = IF r.conn # 0 THEN connDestroyed \cup {r.conn}
                                        ELSE connDestroyed
     /\ flushIntervals' = IF r.conn # 0 THEN FlushAfterDestroy(r.conn, fl) ELSE fl
     /\ voiceStateHandler' = IF r.conn # 0 THEN ListenerAfterDestroy(r.conn, vsh)
                                           ELSE vsh
     /\ activeRecordings' = [g \in Guilds |-> 0]
     /\ stopReq' = [stopReq EXCEPT ![k].pc = "stopped"]
     /\ out' = <<"recordingStopped", r.g>>

\* a stop whose connection.destroy() does nothing on a destroyed connection
Teardown_DestroyIdempotent(k, vsh, fl) ==
  LET r == stopReq[k]
  IN /\ connDestroyed' = IF r.conn # 0 THEN connDestroyed \cup {r.conn}
                                        ELSE connDestroyed
     /\ flushIntervals' = IF r.conn # 0 THEN FlushAfterDestroy(r.conn, fl) ELSE fl
     /\ voiceStateHandler' = IF r.conn # 0 THEN ListenerAfterDestroy(r.conn, vsh)
                                           ELSE vsh
     /\ activeRecordings' = [activeRecordings EXCEPT ![r.g] = 0]
     /\ stopReq' = [stopReq EXCEPT ![k].pc = "stopped"]
     /\ out' = <<"recordingStopped", r.g>>

\* Lines 363-384: the connection read at the start is destroyed (destroy()
\* throws if it already is, which the catch block at 403 reports), the guild's
\* registry entry is deleted and the 'Recording stopped' reply is awaited.
\* vsh and fl are the listeners and flush timers as the caller left them.
Teardown(k, vsh, fl) ==
  LET r == stopReq[k]
  IN IF r.conn # 0 /\ r.conn \in connDestroyed
       THEN /\ stopReq' = [stopReq EXCEPT ![k] = IdleStop]
            /\ out' = <<"stopFailed", r.g>>
            /\ voiceStateHandler' = vsh
            /\ flushIntervals' = fl
            /\ UNCHANGED <<connDestroyed, activeRecordings>>
       ELSE /\ connDestroyed' = IF r.conn # 0 THEN connDestroyed \cup {r.conn}
                                               ELSE connDestroyed
            /\ flushIntervals' = IF r.conn # 0 THEN FlushAfterDestroy(r.conn, fl) ELSE fl
            /\ voiceStateHandler' = IF r.conn # 0 THEN ListenerAfterDestroy(r.conn, vsh)
                                                  ELSE vsh
            /\ activeRecordings' = [activeRecordings EXCEPT ![r.g] = 0]
            /\ stopReq' = [stopReq EXCEPT ![k].pc = "stopped"]
            /\ out' = <<"recordingStopped", r.g>>

\* Lines 311-358: the voice-state listener removed; with participants, every
\* flush timer cleared and end() called on every write stream not destroyed,
\* each with its 2 s force-close timer, then the wait for them; without
\* participants the teardown follows at once.
StopFinalize(k) ==
  LET r   == stopReq[k]
      vsh == IF r.rd # 0 THEN [voiceStateHandler EXCEPT ![r.rd] = FALSE]
                         ELSE voiceStateHandler
  IN /\ r.pc = "stopping"
     /\ IF r.rd # 0 /\ audioStreams[r.rd] # <<>>
          THEN /\ voiceStateHandler' = vsh
               /\ flushIntervals' = [flushIntervals EXCEPT ![r.rd] = {}]
               /\ ws' = [ws EXCEPT ![r.rd] =
                           [u \in Users |-> IF u \in Range(audioStreams[r.rd])
                                              THEN EndStream(ws, r.rd, u)[r.rd][u]
                                              ELSE @[u]]]
               /\ stopReq' = [stopReq EXCEPT ![k].pc = "waiting",
                                             ![k].fin = Range(audioStreams[r.rd])]
               /\ out' = Silent
               /\ UNCHANGED <<connDestroyed, activeRecordings>>
          ELSE /\ Teardown(k, vsh, flushIntervals)
               /\ UNCHANGED ws
     /\ UNCHANGED <<callVars, partFiles, spoke, sessVars, audioStreams, reconnectAttempts, exhausted, dirs,
                    mkdirWait, files, joining, stopped, mp3>>

\* Lines 355-360: the race of Promise.all(closePromises) with the 3 s timer is
\* over.  A close promise resolves when its stream has finished or has been
\* destroyed; the 3 s timer expires after every 2 s force-close timer has.
StopResume(k) ==
  LET r == stopReq[k]
  IN /\ r.pc = "waiting"
     /\ \A u \in r.fin : Destroyed(r.rd, u)
     /\ Teardown(k, voiceStateHandler, flushIntervals)
     /\ UNCHANGED <<callVars, partFiles, spoke, sessVars, capVars, reconnectAttempts, exhausted, dirs,
                    mkdirWait, files, joining, stopped, mp3>>

\* Lines 386-402: processRecordings is scheduled after FINAL_FLUSH_DELAY_MS if
\* the session has participants, else 'No audio was captured' is sent
StopSchedule(k) ==
  LET r == stopReq[k]
  IN /\ r.pc = "stopped"
     /\ IF r.rd # 0 /\ audioStreams[r.rd] # <<>>
          THEN /\ stopReq' = [stopReq EXCEPT ![k].pc = "scheduled"]
               /\ out' = Silent
               /\ UNCHANGED stopped
          ELSE /\ stopReq' = [stopReq EXCEPT ![k] = IdleStop]
               /\ out' = <<"noAudioCaptured", r.g>>
               /\ stopped' = stopped \cup ({r.rd} \ {0})
     /\ UNCHANGED <<callVars, partFiles, spoke, activeRecordings, sessVars, connDestroyed, capVars,
                    flushIntervals, reconnectAttempts, voiceStateHandler,
                    exhausted, dirs, mkdirWait, files, joining, mp3>>

\* ------------------------------------------------------- splitAudioIntoChunks
PROBE_LIMIT == 999    \* indices probed for segment files (line 759)

\* lines 758-763: the probing loop from index i on; existing are the indices
\* whose segment file is on disk
RECURSIVE produced(_, _)
produced(existing, i) ==
  IF i >= PROBE_LIMIT THEN <<>>
  ELSE IF i \in existing THEN <<i>> \o produced(existing, i + 1)
  ELSE IF i > 0 THEN <<>>
  ELSE produced(existing, i + 1)

\* lines 746-770: the list returned; ok says that ffmpeg ran to a zero exit
splitAudioIntoChunks(ok, existing) == IF ok THEN produced(existing, 0) ELSE <<>>

\* the segment files of a participant on disk
PartsOf(pf, g, u) == {i \in 0..(MaxChunks - 1) : <<g, u, i>> \in pf}

\* ---------------------------------------------------------- processRecordings
procFrame == <<activeRecordings, sessVars, connDestroyed, capVars, flushIntervals,
               reconnectAttempts, voiceStateHandler, exhausted, dirs, mkdirWait,
               joining>>

\* The timer fires: lines 415-427, the participants are snapshotted
ProcBegin(k) ==
  /\ stopReq[k].pc = "scheduled"
  /\ stopReq' = [stopReq EXCEPT ![k].pc = "proc",
                                ![k].order = audioStreams[stopReq[k].rd],
                                ![k].idx = 1]
  /\ out' = Silent
  /\ UNCHANGED <<callVars, partFiles, spoke, procFrame, files, stopped, mp3>>

CurUser(k) == stopReq[k].order[stopReq[k].idx]

\* the loop goes on to the next participant
NextUser(r) ==
  [r EXCEPT !.pc = "proc", !.idx = @ + 1, !.mode = "-", !.nCh = 0, !.ci = 0,
            !.shouldChunkProactively = FALSE, !.got = <<>>]

\* Lines 429-515: the raw file is looked up and sized; a missing or empty file
\* ends this participant's turn with a log line, else ffmpeg is started on it
ProcUser(k) ==
  LET r  == stopReq[k]
      u  == CurUser(k)
      sz == files[r.g][u]
  IN /\ r.pc = "proc"
     /\ r.idx <= Len(r.order)
     /\ IF sz = Absent
          THEN /\ stopReq' = [stopReq EXCEPT ![k] = NextUser(r)]
               /\ out' = <<"log", "noRecordings", r.rd, u>>
          ELSE IF sz = 0
            THEN /\ stopReq' = [stopReq EXCEPT ![k] = NextUser(r)]
                 /\ out' = <<"log", "emptyRecording", r.rd, u>>
            ELSE /\ stopReq' = [stopReq EXCEPT ![k].pc = "convert"]
                 /\ out' = <<"convert", r.rd, u>>
     /\ UNCHANGED <<callVars, partFiles, spoke, procFrame, files, stopped, mp3>>

\* a processRecordings that tries the whole file first whatever its size
ProcConvertOk_WholeFirst(k, big) ==
  LET r == stopReq[k]
  IN /\ r.pc = "convert"
     /\ mp3' = mp3 \cup {<<r.g, CurUser(k)>>}
     /\ stopReq' = [stopReq EXCEPT ![k].pc = "whole", ![k].mode = "first",
                                   ![k].shouldChunkProactively = big]
     /\ out' = Silent
     /\ UNCHANGED <<callVars, partFiles, spoke, procFrame, files, stopped>>

\* Lines 517-538: ffmpeg has produced a non-empty MP3; big says that its size
\* is above PROACTIVE_CHUNK_MB, which decides between proactive chunking and
\* the whole-file attempt
ProcConvertOk(k, big) ==
  LET r == stopReq[k]
  IN /\ r.pc = "convert"
     /\ mp3' = mp3 \cup {<<r.g, CurUser(k)>>}
     /\ stopReq' = [stopReq EXCEPT ![k].pc = IF big THEN "split" ELSE "whole",
                                   ![k].mode = IF big THEN "proactive" ELSE "first",
                                   ![k].shouldChunkProactively = big]
     /\ out' = Silent
     /\ UNCHANGED <<callVars, partFiles, spoke, procFrame, files, stopped>>

\* failedProcessing after the catch block of a failed conversion (lines
\* 600-615): a followUp that rejects there is caught by the outer catch block,
\* which counts once more
FailedAfter(r, rejected) == r.failed + (IF rejected THEN 2 ELSE 1)

\* a conversion failure that ends the loop over the participants
ProcConvertFail_Abort(k, rejected) ==
  LET r == stopReq[k]
  IN /\ r.pc = "convert"
     /\ stopReq' = [stopReq EXCEPT ![k] =
                      [NextUser(r) EXCEPT !.failed = FailedAfter(r, rejected),
                                          !.idx = Len(r.order) + 1]]
     /\ out' = <<"notice", "couldNotConvert", r.rd, CurUser(k)>>
     /\ UNCHANGED <<callVars, partFiles, spoke, procFrame, files, stopped, mp3>>

\* a catch block that also removes the raw file
ProcConvertFail_Unlink(k, rejected) ==
  LET r == stopReq[k]
  IN /\ r.pc = "convert"
     /\ stopReq' = [stopReq EXCEPT ![k] =
                      [NextUser(r) EXCEPT !.failed = FailedAfter(r, rejected)]]
     /\ files' = [files EXCEPT ![r.g][CurUser(k)] = Absent]
     /\ out' = <<"notice", "couldNotConvert", r.rd, CurUser(k)>>
     /\ UNCHANGED <<callVars, partFiles, spoke, procFrame, stopped, mp3>>

\* Lines 600-608: ffmpeg failed, timed out or left an empty file; rejected
\* says that the report sink rejects the notice
ProcConvertFail(k, rejected) ==
  LET r == stopReq[k]
  IN /\ r.pc = "convert"
     /\ stopReq' = [stopReq EXCEPT ![k] =
                      [NextUser(r) EXCEPT !.failed = FailedAfter(r, rejected)]]
     /\ out' = <<"notice", "couldNotConvert", r.rd, CurUser(k)>>
     /\ UNCHANGED <<callVars, partFiles, spoke, procFrame, files, stopped, mp3>>

\* Lines 586-599, 610: the participant's labelled block is added to the
\* transcript if there is text, and the raw file is unlinked.  A text is the
\* sequence of the pieces it was joined from: 0 for the whole file, i for
\* segment i.
Finish(k, text) ==
  LET r == stopReq[k]
      u == CurUser(k)
  IN /\ stopReq' = [stopReq EXCEPT ![k] =
                      [NextUser(r) EXCEPT
                         !.allTx = IF text # <<>> THEN Append(@, <<u, text>>) ELSE @]]
     /\ files' = [files EXCEPT ![r.g][u] = Absent]

\* splitAudioIntoChunks (lines 543, 565): ffmpeg writes n segment files, or
\* fails (n = 0), and the call returns what its probe finds; an empty list
\* sends the proactive path to the whole file (557-558) and ends the fallback
ProcSplit(k, n) ==
  LET r      == stopReq[k]
      u      == CurUser(k)
      pf     == partFiles \cup {<<r.g, u, i>> : i \in 0..(n - 1)}
      chunks == splitAudioIntoChunks(n > 0, PartsOf(pf, r.g, u))
  IN /\ r.pc = "split"
     /\ partFiles' = pf
     /\ IF Len(chunks) > 0
          THEN /\ stopReq' = [stopReq EXCEPT ![k].pc = "chunks",
                                            ![k].nCh = Len(chunks), ![k].ci = 1]
               /\ UNCHANGED files
          ELSE IF r.mode = "proactive"
            THEN /\ stopReq' = [stopReq EXCEPT ![k].pc = "whole", ![k].mode = "noChunks"]
                 /\ UNCHANGED files
            ELSE Finish(k, <<>>)
     /\ out' = Silent
     /\ UNCHANGED <<callVars, spoke, procFrame, stopped, mp3>>

\* transcribeAudio(mergedMp3Path) returns text (ok) or null (lines 558, 562);
\* out is the call with what it returned
ProcWhole(k, ok) ==
  LET r == stopReq[k]
  IN /\ r.pc = "whole"
     /\ out' = <<"transcribe", r.rd, CurUser(k), 0, ok>>
     /\ IF r.mode = "first" /\ ~ok
          THEN /\ stopReq' = [stopReq EXCEPT ![k].pc = "split", ![k].mode = "fallback"]
               /\ UNCHANGED files
          ELSE Finish(k, IF ok THEN <<0>> ELSE <<>>)
     /\ UNCHANGED <<callVars, partFiles, spoke, procFrame, stopped, mp3>>

\* unlink(chunkPath) of segment ci (lines 553, 577); the probe has returned
\* the segments 0, 1, ... in this order
Unlinked(k) ==
  partFiles \ {<<stopReq[k].g, CurUser(k), stopReq[k].ci - 1>>}

\* a chunk loop that gives up at the first segment without text
ProcChunk_AbortOnFailure(k, ok) ==
  LET r   == stopReq[k]
      got == IF ok THEN Append(r.got, r.ci) ELSE r.got
  IN /\ r.pc = "chunks"
     /\ out' = <<"transcribe", r.rd, CurUser(k), r.ci, ok>>
     /\ partFiles' = Unlinked(k)
     /\ IF r.ci < r.nCh /\ ok
          THEN /\ stopReq' = [stopReq EXCEPT ![k].ci = @ + 1, ![k].got = got]
               /\ UNCHANGED files
          ELSE Finish(k, got)
     /\ UNCHANGED <<callVars, spoke, procFrame, stopped, mp3>>

\* a chunk loop that unlinks only the segments that gave text
ProcChunk_KeepFailed(k, ok) ==
  LET r   == stopReq[k]
      got == IF ok THEN Append(r.got, r.ci) ELSE r.got
  IN /\ r.pc = "chunks"
     /\ out' = <<"transcribe", r.rd, CurUser(k), r.ci, ok>>
     /\ partFiles' = IF ok THEN Unlinked(k) ELSE partFiles
     /\ IF r.ci < r.nCh
          THEN /\ stopReq' = [stopReq EXCEPT ![k].ci = @ + 1, ![k].got = got]
               /\ UNCHANGED files
          ELSE Finish(k, got)
     /\ UNCHANGED <<callVars, spoke, procFrame, stopped, mp3>>

\* transcribeAudio(chunkPath) for the next segment, which is then unlinked
\* (lines 545-554, 568-578); after the last one the texts are joined
ProcChunk(k, ok) ==
  LET r   == stopReq[k]
      got == IF ok THEN Append(r.got, r.ci) ELSE r.got
  IN /\ r.pc = "chunks"
     /\ out' = <<"transcribe", r.rd, CurUser(k), r.ci, ok>>
     /\ partFiles' = Unlinked(k)
     /\ IF r.ci < r.nCh
          THEN /\ stopReq' = [stopReq EXCEPT ![k].ci = @ + 1, ![k].got = got]
               /\ UNCHANGED files
          ELSE Finish(k, got)
     /\ UNCHANGED <<callVars, spoke, procFrame, stopped, mp3>>

\* The message a closing step of processRecordings sends (lines 636-661)
Report(o) ==
  CASE o[1] = "summary" /\ o[2] = "text"  -> "Summary:"
    [] o[1] = "summary" /\ o[2] = "null"  -> "Could not generate summary."
    [] o[1] = "summary" /\ o[2] = "throw" -> "Error generating summary."
    [] o[1] = "notice" /\ o[2] = "allFailed" ->
         "All recording(s) failed to process. No transcriptions available."
    [] o[1] = "notice" /\ o[2] = "noTranscription" ->
         "No transcription could be generated from the recordings."
    [] OTHER -> "-"

\* What a closing step goes on to send when the report sink rejects the first
\* `rejects` messages from the step's own on: inside the try block (lines
\* 632-647) the rejection is taken for a failure of the summary (648-652), and
\* a rejection outside it leaves processRecordings for the catch block of the
\* timer (391-395), whose own message is sent with a .catch.
AfterRejection(inTry, rejects) ==
  IF rejects = 0 THEN <<>>
  ELSE IF ~inTry THEN <<"Error processing recordings.">>
  ELSE IF rejects = 1 THEN <<"Error generating summary.">>
  ELSE <<"Error generating summary.", "Error processing recordings.">>

\* what the closing step emits: the call or notice, and after a rejection
\* what was sent because of it
Closing(o, inTry, rejects) ==
  IF rejects = 0 THEN o ELSE o \o <<"rejected", AfterRejection(inTry, rejects)>>

\* a closing step that calls summarizeText whatever the transcript holds
ProcSummary_AlwaysSummarize(k, res, rejects) ==
  LET r == stopReq[k]
  IN /\ r.pc = "proc"
     /\ r.idx > Len(r.order)
     /\ out' = Closing(<<"summary", res, r.rd>>, res # "throw", rejects)
     /\ stopReq' = [stopReq EXCEPT ![k] = IdleStop]
     /\ stopped' = stopped \cup {r.rd}
     /\ UNCHANGED <<callVars, partFiles, spoke, procFrame, files, mp3>>

\* Lines 618-662: with transcript text summarizeText is called and its result
\* or failure reported, without text one of the two notices is sent
ProcSummary(k, res, rejects) ==
  LET r == stopReq[k]
  IN /\ r.pc = "proc"
     /\ r.idx > Len(r.order)
     /\ IF r.allTx # <<>>
          THEN out' = Closing(<<"summary", res, r.rd>>, res # "throw", rejects)
          ELSE /\ res = "null"
               /\ out' = Closing(<<"notice", IF r.failed > 0 THEN "allFailed"
                                                             ELSE "noTranscription",
                                   r.rd, "-">>, FALSE, rejects)
     /\ stopReq' = [stopReq EXCEPT ![k] = IdleStop]
     /\ stopped' = stopped \cup {r.rd}
     /\ UNCHANGED <<callVars, partFiles, spoke, procFrame, files, mp3>>

Stop ==
  \E k \in StopIds : StopFinalize(k) \/ StopResume(k) \/ StopSchedule(k)

Process ==
  \E k \in StopIds :
    \/ ProcBegin(k) \/ ProcUser(k)
    \/ \E rejected \in BOOLEAN : ProcConvertFail(k, rejected)
    \/ \E big \in BOOLEAN : ProcConvertOk(k, big)
    \/ \E n \in 0..MaxChunks : ProcSplit(k, n)
    \/ \E ok \in BOOLEAN : ProcWhole(k, ok) \/ ProcChunk(k, ok)
    \/ \E res \in {"text", "null", "throw"}, rejects \in 0..2 :
         ProcSummary(k, res, rejects)

Capture ==
  \E s \in SessionIds, u \in Users :
    \/ SpeakingStart(s, u) \/ SpeakingResume(s, u) \/ AudioFrame(s, u)
    \/ WriteFinish(s, u) \/ ForceClose(s, u) \/ PipelineError(s, u)
    \/ FlushTick(s, u) \/ UserLeft(s, u) \/ SilenceElapsed(s, u)

\* the /record commands of one guild
CommandsOf(g) ==
  \/ StartCheck(g) \/ StartJoinFail(g) \/ StopCheck(g)
  \/ \E replied \in BOOLEAN : StartJoin(g, replied)

Commands == CommandsOf("g1")

ConnectionDrops == \E s \in SessionIds : ReconnectOk(s) \/ ReconnectFail(s)

\* One guild whose connection never drops: commands, capture, stop, processing
Next == Commands \/ Capture \/ Stop \/ Process

Spec == Init /\ [][Next]_vars

\* The same with connection drops, up to the scheduling of processing
NextConn == Commands \/ Capture \/ Stop \/ ConnectionDrops

SpecConn == Init /\ [][NextConn]_vars

\* Both guilds receive commands: start, capture and stop, without processing
NextScopes == (\E g \in Guilds : CommandsOf(g)) \/ Capture \/ Stop

SpecScopes == Init /\ [][NextScopes]_vars

\* Stop requests of one guild that race: up to MaxStopsRace stopRecording
\* calls in flight, with capture, the stop continuations and processing
NextStops ==
  \/ StartCheck("g1") \/ StartJoin("g1", TRUE)
  \/ StopCheckUpTo("g1", MaxStopsRace)
  \/ \E s \in SessionIds, u \in Users :
       SpeakingStart(s, u) \/ SpeakingResume(s, u) \/ AudioFrame(s, u)
         \/ WriteFinish(s, u) \/ ForceClose(s, u) \/ PipelineError(s, u)
  \/ Stop \/ Process

SpecStops == Init /\ [][NextStops]_vars

\* The first speakers of a guild without a recordings directory: up to
\* MaxSuspendedRace handlers suspended in mkdir, resumed in any order, with
\* the stop and the processing of the session
NextOrder ==
  \/ StartCheck("g1") \/ StartJoin("g1", TRUE) \/ StopCheck("g1")
  \/ \E s \in SessionIds, u \in Users :
       SpeakingStartUpTo(s, u, MaxSuspendedRace) \/ SpeakingResume(s, u)
         \/ AudioFrame(s, u) \/ WriteFinish(s, u) \/ ForceClose(s, u)
  \/ Stop \/ Process

SpecOrder == Init /\ [][NextOrder]_vars

\* Connection never drops; the continuations of a stop and the force-close
\* timers are not postponed for ever.  A graceful 'finish' is not assumed.
SpecLive ==
  /\ Spec
  /\ \A k \in StopIds :
       WF_vars(StopFinalize(k)) /\ WF_vars(StopResume(k)) /\ WF_vars(StopSchedule(k))
  /\ \A s \in SessionIds, u \in Users : WF_vars(ForceClose(s, u))

\* ------------------------------------------------------------ transcribeAudio
\* (src/unnamed/part_000; the Gemini and the OpenAI version share the loop)
maxAttempts == 3

NoStatus == 0         \* error.status is undefined
NoField == "-"        \* error.code, error.name or error.type is undefined

\* An error thrown by an attempt: the fields the catch block reads, and what
\* kind of failure it is.
Err(kind, code, status, name) ==
  [kind |-> kind, code |-> code, status |-> status, name |-> name]

Errors ==
  { Err("network",   "ECONNRESET", NoStatus, NoField),
    Err("network",   "ETIMEDOUT",  NoStatus, NoField),
    Err("network",   NoField,      NoStatus, "APIConnectionError"),
    Err("dns",       "ENOTFOUND",  NoStatus, NoField),
    Err("server",    NoField,      503,      NoField),
    Err("ratelimit", NoField,      429,      NoField),
    Err("auth",      NoField,      401,      NoField),
    Err("auth",      NoField,      NoStatus, NoField),
    Err("malformed", NoField,      400,      NoField),
    Err("malformed", "ENOENT",     NoStatus, NoField) }

transientCodes == {"ECONNRESET", "ETIMEDOUT", "ECONNREFUSED", "EAI_AGAIN"}

\* lines 126-131 (50-55): error.type is set with error.name on the errors that
\* carry it and is not followed apart
isTransient(e) ==
  \/ e.code \in transientCodes
  \/ (e.status # NoStatus /\ e.status >= 500)
  \/ e.name = "APIConnectionError"
  \/ e.status = NoStatus

\* line 145 (68): Math.min(4000, 1000 * 2 ** (attempt - 1))
delayMs(attempt) ==
  LET d == 1000 * 2 ^ (attempt - 1) IN IF d < 4000 THEN d ELSE 4000

recorderVars == <<activeRecordings, nSessions, guildOf, connOf, connDestroyed,
                  audioStreams, ws, flushIntervals, reconnectAttempts,
                  voiceStateHandler, exhausted, dirs, mkdirWait, files, joining,
                  stopReq, stopped, mp3, partFiles, spoke>>

txFrame == <<recorderVars, call>>

\* transcribeAudio(filePath) is called (lines 95-101)
TxCall ==
  /\ tx.pc = "idle"
  /\ tx' = [IdleTx EXCEPT !.pc = "trying"]
  /\ out' = Silent
  /\ UNCHANGED txFrame

\* an attempt returns the transcription (lines 104-120)
TxAttemptOk ==
  /\ tx.pc = "trying"
  /\ tx.attempt < maxAttempts
  /\ tx' = [tx EXCEPT !.attempt = @ + 1, !.pc = "done", !.result = "text"]
  /\ out' = Silent
  /\ UNCHANGED txFrame

\* a catch block that gives up only after maxAttempts + 1 attempts
TxAttemptFail_OneMore(e) ==
  LET attempt == tx.attempt + 1
  IN /\ tx.pc = "trying"
     /\ tx.attempt < maxAttempts + 1
     /\ IF ~isTransient(e) \/ attempt > maxAttempts
          THEN tx' = [tx EXCEPT !.attempt = attempt, !.errs = Append(@, e),
                                !.pc = "done", !.result = "null"]
          ELSE tx' = [tx EXCEPT !.attempt = attempt, !.errs = Append(@, e),
                                !.pc = "waiting",
                                !.waits = Append(@, delayMs(attempt))]
     /\ out' = Silent
     /\ UNCHANGED txFrame

\* an attempt throws e (lines 121-148): null at once if e is not transient or
\* this was the last attempt, else the backoff wait is started
TxAttemptFail(e) ==
  LET attempt == tx.attempt + 1
  IN /\ tx.pc = "trying"
     /\ tx.attempt < maxAttempts
     /\ IF ~isTransient(e) \/ attempt >= maxAttempts
          THEN tx' = [tx EXCEPT !.attempt = attempt, !.errs = Append(@, e),
                                !.pc = "done", !.result = "null"]
          ELSE tx' = [tx EXCEPT !.attempt = attempt, !.errs = Append(@, e),
                                !.pc = "waiting",
                                !.waits = Append(@, delayMs(attempt))]
     /\ out' = Silent
     /\ UNCHANGED txFrame

\* the backoff timer fires (line 147) and the loop goes round
TxBackoffOver ==
  /\ tx.pc = "waiting"
  /\ tx' = [tx EXCEPT !.pc = "trying"]
  /\ out' = Silent
  /\ UNCHANGED txFrame

\* the caller has the result
TxReturn ==
  /\ tx.pc = "done"
  /\ tx' = IdleTx
  /\ out' = <<"transcribed", tx.result>>
  /\ UNCHANGED txFrame

NextTx ==
  \/ TxCall \/ TxAttemptOk \/ TxBackoffOver \/ TxReturn
  \/ \E e \in Errors : TxAttemptFail(e)

\* one transcribeAudio call after another, every attempt free to fail
SpecTx == Init /\ [][NextTx]_vars

\* --------------------------------------------------------------- splitMessage
\* (lines 665-709)  A string is the sequence of its characters.
MaxTextLen == 5       \* length of the texts given to splitMessage
MaxUnit    == 3       \* maxLength runs over 1..MaxUnit

NL == "\n"
SP == " "
Chars == {"a", "b", SP, NL}
White == {SP, NL}     \* what String.prototype.trim removes of Chars

Texts == UNION {[1..n -> Chars] : n \in 0..MaxTextLen}

\* String.prototype.split(c): the pieces between the occurrences of c
RECURSIVE split(_, _)
split(s, c) ==
  IF \A i \in 1..Len(s) : s[i] # c
    THEN <<s>>
    ELSE LET i == CHOOSE j \in 1..Len(s) :
                    s[j] = c /\ \A h \in 1..(j - 1) : s[h] # c
         IN <<SubSeq(s, 1, i - 1)>> \o split(SubSeq(s, i + 1, Len(s)), c)

RECURSIVE trimStart(_)
trimStart(s) == IF s # <<>> /\ Head(s) \in White THEN trimStart(Tail(s)) ELSE s

RECURSIVE trimEnd(_)
trimEnd(s) ==
  IF s # <<>> /\ s[Len(s)] \in White THEN trimEnd(SubSeq(s, 1, Len(s) - 1)) ELSE s

\* String.prototype.trim
trim(s) == trimEnd(trimStart(s))

\* String.prototype.substring(from, to), 0-based, to exclusive
substring(s, from, to) ==
  SubSeq(s, from + 1, IF to < Len(s) THEN to ELSE Len(s))

\* a forced split that keeps the head of an over-long word and drops the rest
WordStep_DropRest(st, word, maxLength) ==
  IF Len(st.tempLine) + Len(word) + 1 > maxLength
    THEN IF st.tempLine # <<>>
           THEN [chunks |-> Append(st.chunks, trim(st.tempLine)),
                 tempLine |-> word \o <<SP>>]
           ELSE [chunks |-> Append(st.chunks, substring(word, 0, maxLength)),
                 tempLine |-> <<SP>>]
    ELSE [chunks |-> st.chunks, tempLine |-> st.tempLine \o word \o <<SP>>]

\* lines 682-695: one word of a long line
WordStep(st, word, maxLength) ==
  IF Len(st.tempLine) + Len(word) + 1 > maxLength
    THEN IF st.tempLine # <<>>
           THEN [chunks |-> Append(st.chunks, trim(st.tempLine)),
                 tempLine |-> word \o <<SP>>]
           ELSE [chunks |-> Append(st.chunks, substring(word, 0, maxLength)),
                 tempLine |-> substring(word, maxLength, Len(word)) \o <<SP>>]
    ELSE [chunks |-> st.chunks, tempLine |-> st.tempLine \o word \o <<SP>>]

RECURSIVE WordLoop(_, _, _)
WordLoop(st, words, maxLength) ==
  IF words = <<>> THEN st
  ELSE WordLoop(WordStep(st, Head(words), maxLength), Tail(words), maxLength)

\* lines 671-703: one line of the text
LineStep(st, line, maxLength) ==
  IF Len(line) > maxLength
    THEN LET flushed == IF st.currentChunk # <<>>
                          THEN Append(st.chunks, st.currentChunk)
                          ELSE st.chunks
             w == WordLoop([chunks |-> flushed, tempLine |-> <<>>],
                           split(line, SP), maxLength)
         IN [chunks |-> w.chunks,
             currentChunk |-> IF w.tempLine # <<>>
                                THEN trim(w.tempLine) \o <<NL>> ELSE <<>>]
    ELSE IF Len(st.currentChunk) + Len(line) + 1 > maxLength
      THEN [chunks |-> IF st.currentChunk # <<>>
                         THEN Append(st.chunks, trim(st.currentChunk))
                         ELSE st.chunks,
            currentChunk |-> line \o <<NL>>]
      ELSE [chunks |-> st.chunks,
            currentChunk |-> st.currentChunk \o line \o <<NL>>]

RECURSIVE LineLoop(_, _, _)
LineLoop(st, lines, maxLength) ==
  IF lines = <<>> THEN st
  ELSE LineLoop(LineStep(st, Head(lines), maxLength), Tail(lines), maxLength)

splitMessage(text, maxLength) ==
  LET st == LineLoop([chunks |-> <<>>, currentChunk |-> <<>>],
                     split(text, NL), maxLength)
  IN IF st.currentChunk # <<>> THEN Append(st.chunks, trim(st.currentChunk))
                               ELSE st.chunks

\* splitMessage is about to be called with a text and a unit size
InitSplit ==
  /\ InitRecorder
  /\ \E text \in Texts, maxLength \in 1..MaxUnit :
       call = [fn |-> "splitMessage", pc |-> "called", text |-> text,
               maxLength |-> maxLength, chunks |-> <<>>]

\* the call returns its units
SplitReturn ==
  /\ call.fn = "splitMessage"
  /\ call.pc = "called"
  /\ call' = [call EXCEPT !.pc = "returned",
                          !.chunks = splitMessage(call.text, call.maxLength)]
  /\ out' = Silent
  /\ UNCHANGED <<recorderVars, tx>>

NextSplit == SplitReturn

\* one call of splitMessage on any text and unit size within the bounds
SpecSplit == InitSplit /\ [][NextSplit]_vars

\* ------------------------------------------- splitAudioIntoChunks, one call
MaxParts == 4         \* segment files part_000 .. are followed up to this many

PartIds == 0..(MaxParts - 1)

\* splitAudioIntoChunks is called (line 746); onDisk are the segment files
\* of that base name already in the recordings directory
InitSegment ==
  /\ InitRecorder
  /\ \E left \in SUBSET PartIds :
       call = [fn |-> "splitAudioIntoChunks", pc |-> "segmenting",
               onDisk |-> left, written |-> 0, ok |-> FALSE, chunks |-> <<>>]

\* ffmpeg (lines 753-754, -y) writes its next segment file
SegmentWrite ==
  /\ call.fn = "splitAudioIntoChunks"
  /\ call.pc = "segmenting"
  /\ call.written < MaxParts
  /\ call' = [call EXCEPT !.onDisk = @ \cup {call.written}, !.written = @ + 1]
  /\ out' = Silent
  /\ UNCHANGED <<recorderVars, tx>>

\* The chunk loop of a processRecordings that runs for an earlier session of
\* the guild unlinks a segment file it has attempted (lines 553, 577): the
\* files of a participant have the same names in every session of a guild
OtherUnlink(i) ==
  /\ call.fn = "splitAudioIntoChunks"
  /\ call.pc = "segmenting"
  /\ i \in call.onDisk
  /\ call' = [call EXCEPT !.onDisk = @ \ {i}]
  /\ out' = Silent
  /\ UNCHANGED <<recorderVars, tx>>

\* ffmpeg exits: with a zero exit (ok), having written a segment at least,
\* the probe runs and its list is returned; else execAsync rejects and the
\* catch block returns the empty list (lines 766-769)
SegmenterExit(ok) ==
  /\ call.fn = "splitAudioIntoChunks"
  /\ call.pc = "segmenting"
  /\ ok => call.written > 0
  /\ call' = [call EXCEPT !.pc = "returned", !.ok = ok,
                          !.chunks = splitAudioIntoChunks(ok, call.onDisk)]
  /\ out' = Silent
  /\ UNCHANGED <<recorderVars, tx>>

NextSegment ==
  \/ SegmentWrite
  \/ \E i \in PartIds : OtherUnlink(i)
  \/ \E ok \in BOOLEAN : SegmenterExit(ok)

\* one call of splitAudioIntoChunks
SpecSegment == InitSegment /\ [][NextSegment]_vars

\* --------------------------------------------------------- conversion timeout
\* (lines 505-515)  The sizes are those of raw files of SizeStep bytes each way
MaxSizeSteps == 150   \* raw file sizes run over 1..MaxSizeSteps steps
SizeStep == 9999991   \* bytes in a step (about 9.5 MiB)

MiB == 1048576        \* 1024 * 1024 (line 507)
MS_PER_MiB == 500     \* line 508
MIN_TIMEOUT_MS == 90000
MAX_TIMEOUT_MS == 600000

Sizes == {i * SizeStep : i \in 1..MaxSizeSteps}

Min(a, b) == IF a < b THEN a ELSE b
Max(a, b) == IF a > b THEN a ELSE b

\* Math.floor(mergedSizeMB * 500), where mergedSizeMB = mergedSize / MiB is a
\* fraction: the whole MiB and the rest of the bytes are scaled apart, which
\* keeps the products within 32 bits and loses nothing
scaledMs(mergedSize) ==
  (mergedSize \div MiB) * MS_PER_MiB + ((mergedSize % MiB) * MS_PER_MiB) \div MiB

\* a timeout without the 10 minute ceiling
timeoutMs_NoCeiling(mergedSize) == Max(MIN_TIMEOUT_MS, scaledMs(mergedSize))

\* line 508: Math.floor(Math.max(90000, Math.min(600000, mergedSizeMB * 500)));
\* the limits are whole numbers, so rounding down before or after them is the same
timeoutMs(mergedSize) ==
  Max(MIN_TIMEOUT_MS, Min(MAX_TIMEOUT_MS, scaledMs(mergedSize)))

NoConversion == [mergedSize |-> 0, timeoutMs |-> 0]

\* processRecordings has sized the raw file of a participant (lines 485-499)
InitTimeout ==
  /\ InitRecorder
  /\ \E mergedSize \in Sizes :
       call = [fn |-> "convert", pc |-> "sized", mergedSize |-> mergedSize,
               timeoutMs |-> 0, last |-> NoConversion]

\* lines 507-515: the timeout is computed and ffmpeg started with it
ConvertStart ==
  /\ call.fn = "convert"
  /\ call.pc = "sized"
  /\ call' = [call EXCEPT !.pc = "started", !.timeoutMs = timeoutMs(call.mergedSize)]
  /\ out' = Silent
  /\ UNCHANGED <<recorderVars, tx>>

\* the loop comes to the next participant, whose raw file has mergedSize bytes
ConvertNext(mergedSize) ==
  /\ call.fn = "convert"
  /\ call.pc = "started"
  /\ call' = [call EXCEPT !.pc = "sized", !.mergedSize = mergedSize,
                          !.timeoutMs = 0,
                          !.last = [mergedSize |-> call.mergedSize,
                                    timeoutMs |-> call.timeoutMs]]
  /\ out' = Silent
  /\ UNCHANGED <<recorderVars, tx>>

NextTimeout == ConvertStart \/ \E mergedSize \in Sizes : ConvertNext(mergedSize)

\* the conversions of one processRecordings, raw files of any size in Sizes
SpecTimeout == InitTimeout /\ [][NextTimeout]_vars

\* ------------------------------------------------------------ session states
StopOf(s) == {k \in StopIds : stopReq[k].pc # "idle" /\ stopReq[k].rd = s}

ProcessingPcs == {"scheduled", "proc", "convert", "split", "whole", "chunks"}

\* the Session state of the specification, read off the program state
SessionState(s) ==
  IF ~Live(s) THEN "None"
  ELSE IF \E k \in StopOf(s) : stopReq[k].pc \in ProcessingPcs THEN "Processing"
  ELSE IF StopOf(s) # {} THEN "Stopping"
  ELSE IF s \in stopped \cup exhausted THEN "Closed"
  ELSE IF connOf[s] \in connDestroyed THEN "Closed"
  ELSE "Recording"

SessionsOf(g) == {s \in 1..nSessions : guildOf[s] = g}

\* ===================================================================== C1
\* the outputs by which a step shows itself as the existence check of
\* startRecording for guild g
StartOutcomes(g) == {<<"alreadyRecording", g>>, <<"joining", g>>}

\* C1: a start request for a guild that has a session in the registry is
\* answered 'Already recording'; it is not suspended for a join, creates no
\* session record, no connection and no participant map, and leaves the
\* registry and every existing session record as they were.
C1_StartRejectedWhileRegistered ==
  [][\A g \in Guilds :
       (activeRecordings[g] # 0 /\ out' \in StartOutcomes(g))
         => /\ out' = <<"alreadyRecording", g>>
            /\ UNCHANGED <<activeRecordings, sessVars, joining, connDestroyed,
                           capVars, flushIntervals, reconnectAttempts,
                           voiceStateHandler>>]_vars

\* a request has been rejected while the session was capturing a participant
C1_Witness ==
  /\ out = <<"alreadyRecording", "g1">>
  /\ activeRecordings["g1"] # 0
  /\ audioStreams[activeRecordings["g1"]] # <<>>

\* ===================================================================== C2
\* C2: of start requests for one guild that interleave at the status reply
\* between the existence check and the registry insertion, at most one
\* creates a session: no session record is created (and inserted) for a
\* guild whose registry entry is occupied.
C2_NoSessionCreatedOverAnother ==
  [][\A g \in Guilds :
       activeRecordings[g] # 0
         => ~(nSessions' = nSessions + 1 /\ guildOf'[nSessions'] = g)]_vars

\* ===================================================================== C3
\* C3: while a session of a guild is Processing (stop has removed it from the
\* registry, its conversion, transcription or summary is pending or running)
\* a start request for the guild is not accepted.
C3_StartRejectedWhileProcessing ==
  [][\A g \in Guilds :
       (\E s \in SessionsOf(g) : SessionState(s) = "Processing")
         => out' # <<"joining", g>>]_vars

\* ===================================================================== C4
\* C4: a participant has at most one capture (subscription, pipeline, write
\* destination, flush timer) in a session, and a speaking-start event for a
\* participant the session already tracks changes nothing.
C4_OneCapturePerParticipant ==
  /\ [](\A s \in SessionIds, u \in Users :
          Cardinality({i \in DOMAIN audioStreams[s] : audioStreams[s][i] = u}) <= 1)
  /\ [][\A s \in SessionIds, u \in Users :
          out' = <<"subscriptionActive", s, u>>
            => UNCHANGED <<capVars, flushIntervals, files, activeRecordings,
                           sessVars, connDestroyed>>]_vars

\* a speaking-start event has just been handled for a participant whose
\* capture is open
C4_Witness ==
  \E s \in SessionIds, u \in Users :
    out = <<"subscriptionActive", s, u>> /\ CaptureState(s, u) = "Capturing"

\* ===================================================================== C5
\* C5: once a stop that had participants to finalize is past its finalization
\* step (the wait at lines 355-358 is over), no participant of the session is
\* Capturing.
C5_NoneCapturingAfterFinalization ==
  \A k \in StopIds :
    (stopReq[k].fin # {} /\ stopReq[k].pc \notin {"idle", "stopping", "waiting"})
      => \A u \in Range(audioStreams[stopReq[k].rd]) :
           CaptureState(stopReq[k].rd, u) # "Capturing"

\* ===================================================================== C6
\* C6: when, after a stop that had participants to finalize, the conversion
\* of a participant's raw audio begins, the write stream of every participant
\* of the session has finished or been destroyed.
C6_ConversionAfterEveryFinalization ==
  \A k \in StopIds :
    (stopReq[k].fin # {} /\ stopReq[k].pc = "convert")
      => \A u \in Range(audioStreams[stopReq[k].rd]) : Destroyed(stopReq[k].rd, u)

\* ===================================================================== C7
StopRunning(k) == stopReq[k].pc \in {"stopping", "waiting", "stopped"}

\* C7: every stopRecording call comes to its end (processing scheduled or the
\* final reply sent), and every write stream that has been end()ed finishes
\* or is destroyed, also when no stream ever closes gracefully.
C7_StopTerminates ==
  /\ \A k \in StopIds : StopRunning(k) ~> ~StopRunning(k)
  /\ \A s \in SessionIds, u \in Users : (ws[s][u] = "ending") ~> Destroyed(s, u)

\* a force-close timer has just destroyed the stream of a participant a stop
\* is waiting for
C7_Witness ==
  \E k \in StopIds, u \in Users :
    /\ stopReq[k].pc = "waiting"
    /\ u \in stopReq[k].fin
    /\ out = <<"forceClosed", stopReq[k].rd, u>>

\* ===================================================================== C8
\* C8: the step that gives a session up after the last failed reconnection
\* destroys the connection, removes the session from the registry, clears its
\* flush timers and listener, and leaves none of its participants Capturing.
C8_ExhaustionTearsDownSession ==
  [][\A s \in SessionIds :
       (s \notin exhausted /\ s \in exhausted')
         => /\ connOf[s] \in connDestroyed'
            /\ activeRecordings'[guildOf[s]] = 0
            /\ flushIntervals'[s] = {}
            /\ ~voiceStateHandler'[s]
            /\ \A u \in Range(audioStreams[s]) : ws'[s][u] # "open"]_vars

\* ===================================================================== C9
\* processRecordings is about to look at a participant whose raw file is empty
AtEmptyCapture(k) ==
  /\ stopReq[k].pc = "proc"
  /\ stopReq[k].idx <= Len(stopReq[k].order)
  /\ files[stopReq[k].g][CurUser(k)] = 0

\* C9: the step of processRecordings over a participant whose raw file has
\* zero bytes does not start the converter, sends a notice about that
\* participant, and goes on to the next participant.
C9_EmptyCaptureReported ==
  [][\A k \in StopIds :
       (AtEmptyCapture(k) /\ stopReq'[k] # stopReq[k])
         => /\ stopReq'[k].pc = "proc"
            /\ stopReq'[k].idx = stopReq[k].idx + 1
            /\ out'[1] = "notice"
            /\ out'[4] = CurUser(k)]_vars

\* ==================================================================== C10
\* transcribeAudio is being called on the whole MP3 of the current participant
WholeFileCall(k) == stopReq[k].pc = "whole" /\ stopReq'[k] # stopReq[k]

\* C10 as stated: an MP3 above the chunk threshold is never handed whole to
\* transcribeAudio.
C10_NeverWholeAboveThreshold ==
  [][\A k \in StopIds :
       WholeFileCall(k) => ~stopReq[k].shouldChunkProactively]_vars

\* C10 amended: an MP3 above the chunk threshold is split first; it is handed
\* whole to transcribeAudio only after the split has returned no segment, and
\* once segments exist only segments are transcribed.
C10_WholeOnlyWithoutSegments ==
  [][\A k \in StopIds :
       /\ (WholeFileCall(k) /\ stopReq[k].shouldChunkProactively)
            => (stopReq[k].mode = "noChunks" /\ stopReq[k].nCh = 0)
       /\ (stopReq[k].pc = "chunks" /\ stopReq[k].shouldChunkProactively)
            => stopReq'[k].pc \in {"chunks", "proc"}]_vars

\* the first of two segments of an MP3 above the threshold has just been
\* transcribed
C10_Witness ==
  \E k \in StopIds :
    /\ stopReq[k].pc = "chunks"
    /\ stopReq[k].shouldChunkProactively
    /\ stopReq[k].nCh = 2 /\ stopReq[k].ci = 2
    /\ \E ok \in BOOLEAN : out = <<"transcribe", stopReq[k].rd, CurUser(k), 1, ok>>

\* ==================================================================== C11
\* a sequence of segment numbers in ascending order
Ascending(q) == \A i, j \in 1..Len(q) : i < j => q[i] < q[j]

\* C11: an MP3 not above the chunk threshold is first handed whole to
\* transcribeAudio, once; only when that call returns no text is it split, and
\* then every segment is transcribed in turn, a segment without text being
\* skipped, and the participant's block is the texts of the segments that
\* had one, in ascending segment order.
C11_WholeFirstThenSegments ==
  /\ [](\A k \in StopIds : Ascending(stopReq[k].got))
  /\ [][\A k \in StopIds :
         LET r  == stopReq[k]
             r2 == stopReq'[k]
         IN /\ (r.pc = "convert" /\ r2.pc \notin {"convert", "proc"}
                                 /\ ~r2.shouldChunkProactively)
                 => (r2.pc = "whole" /\ r2.mode = "first")
            /\ (r.pc = "whole" /\ r.mode = "first" /\ r2 # r)
                 => /\ out' \in {<<"transcribe", r.rd, CurUser(k), 0, ok>> : ok \in BOOLEAN}
                    /\ IF out'[5]
                         THEN /\ r2.pc = "proc"
                              /\ r2.allTx = Append(r.allTx, <<CurUser(k), <<0>> >>)
                         ELSE /\ r2.pc = "split" /\ r2.mode = "fallback"
                              /\ r2.allTx = r.allTx
            /\ (r.pc = "chunks" /\ r.mode = "fallback" /\ r2 # r)
                 => /\ out' \in {<<"transcribe", r.rd, CurUser(k), r.ci, ok>> : ok \in BOOLEAN}
                    /\ LET got == IF out'[5] THEN Append(r.got, r.ci) ELSE r.got
                       IN IF r.ci < r.nCh
                            THEN r2.pc = "chunks" /\ r2.ci = r.ci + 1 /\ r2.got = got
                            ELSE /\ r2.pc = "proc"
                                 /\ r2.allTx = IF got # <<>>
                                                 THEN Append(r.allTx, <<CurUser(k), got>>)
                                                 ELSE r.allTx]_vars

\* on the fallback path the first of two segments has returned no text and
\* the second is up next
C11_Witness ==
  \E k \in StopIds :
    /\ stopReq[k].pc = "chunks" /\ stopReq[k].mode = "fallback"
    /\ stopReq[k].nCh = 2 /\ stopReq[k].ci = 2 /\ stopReq[k].got = <<>>
    /\ out = <<"transcribe", stopReq[k].rd, CurUser(k), 1, FALSE>>

\* ==================================================================== C12
TransientKinds == {"network", "dns", "server"}
TerminalKinds == {"auth", "malformed"}

\* C12: a transcribeAudio call makes at most 3 attempts; the wait after
\* attempt k is min(4000, 1000 * 2^(k-1)) ms, so 1000 ms before attempt 2 and
\* 2000 ms before attempt 3; no wait follows the third attempt; after three
\* transient failures the call has made exactly 3 attempts and returns null.
C12_BoundedAttemptsAndBackoff ==
  /\ tx.attempt <= 3
  /\ Len(tx.waits) <= 2
  /\ \A k \in 1..Len(tx.waits) :
       /\ tx.waits[k] = (IF k = 1 THEN 1000 ELSE 2000)
       /\ tx.waits[k] = (IF 1000 * 2 ^ (k - 1) < 4000 THEN 1000 * 2 ^ (k - 1) ELSE 4000)
  /\ tx.pc = "waiting" => Len(tx.waits) = tx.attempt
  /\ (tx.pc # "waiting" /\ tx.attempt = 3) => Len(tx.waits) < 3
  /\ \A n \in 1..Len(tx.errs) :
       (\A i \in 1..n : tx.errs[i].kind \in TransientKinds)
         => /\ n < 3 => ~(tx.pc = "done" /\ tx.attempt = n)
            /\ n = 3 => (tx.pc = "done" /\ tx.attempt = 3 /\ tx.result = "null"
                                         /\ tx.waits = <<1000, 2000>>)

\* three transient failures in a row have ended a call
C12_Witness ==
  /\ tx.pc = "done" /\ tx.result = "null" /\ tx.attempt = 3
  /\ Len(tx.errs) = 3
  /\ \A i \in 1..3 : tx.errs[i].kind \in TransientKinds
  /\ tx.waits = <<1000, 2000>>

\* ==================================================================== C13
\* C13: a terminal failure (authentication, malformed input) ends the call:
\* it is the last error of the call, the call returns null, and no backoff
\* wait follows it.
C13_TerminalFailureEndsCall ==
  \A i \in 1..Len(tx.errs) :
    tx.errs[i].kind \in TerminalKinds
      => /\ i = Len(tx.errs)
         /\ tx.pc = "done" /\ tx.result = "null"
         /\ Len(tx.waits) < i

\* ==================================================================== C14
\* C14: a rate-limit failure (status 429) on an attempt that is not the last
\* is followed by a backoff wait (and so by another attempt).
C14_RateLimitRetried ==
  \A i \in 1..Len(tx.errs) :
    (tx.errs[i].status = 429 /\ i < 3)
      => Len(tx.waits) >= i

\* ==================================================================== C15
\* the participants that have a block in the transcript, in block order
BlockUsers(k) == [i \in 1..Len(stopReq[k].allTx) |-> stopReq[k].allTx[i][1]]

\* C15: a failed conversion sends a notice naming that participant, adds no
\* block for them and moves on to the next participant; a participant whose
\* transcription has text gets one block, nobody gets two; and when the loop
\* is over and the transcript has text, summarizeText is called.
C15_ConversionFailureIsolated ==
  /\ [](\A k \in StopIds :
          /\ \A i, j \in 1..Len(BlockUsers(k)) :
               i # j => BlockUsers(k)[i] # BlockUsers(k)[j]
          /\ \A i \in 1..Len(BlockUsers(k)) :
               \E n \in 1..(stopReq[k].idx - 1) : stopReq[k].order[n] = BlockUsers(k)[i])
  /\ [][\A k \in StopIds :
         LET r  == stopReq[k]
             r2 == stopReq'[k]
         IN /\ (r.pc = "convert" /\ r2.pc = "proc")
                 => /\ out' = <<"notice", "couldNotConvert", r.rd, CurUser(k)>>
                    /\ r2.allTx = r.allTx
                    /\ r2.order = r.order /\ r2.idx = r.idx + 1
            /\ (r.pc \in {"whole", "chunks"} /\ r2.pc = "proc"
                   /\ out'[1] = "transcribe" /\ out'[5])
                 => /\ Len(r2.allTx) = Len(r.allTx) + 1
                    /\ r2.allTx[Len(r2.allTx)][1] = CurUser(k)
                    /\ r2.order = r.order /\ r2.idx = r.idx + 1
            /\ (r.pc = "proc" /\ r.idx > Len(r.order) /\ r.allTx # <<>> /\ r2 # r)
                 => out'[1] = "summary"]_vars

\* of two participants one has failed to convert and the other has a block:
\* the loop is over and the summary is next
C15_Witness ==
  \E k \in StopIds :
    /\ stopReq[k].pc = "proc"
    /\ Len(stopReq[k].order) = 2 /\ stopReq[k].idx = 3
    /\ stopReq[k].failed = 1
    /\ Len(stopReq[k].allTx) = 1

\* ==================================================================== C16
\* the loop of processRecordings over the participants is over
LoopOver(k) == stopReq[k].pc = "proc" /\ stopReq[k].idx > Len(stopReq[k].order)

\* C16: when the loop is over and no participant has a block in the
\* transcript, summarizeText is not called and a no-transcription notice is
\* sent, whose text is none of the texts sent after a summarizeText call.
C16_NoTextNoSummary ==
  [][\A k \in StopIds :
       (LoopOver(k) /\ stopReq[k].allTx = <<>> /\ stopReq'[k] # stopReq[k])
         => /\ out'[1] = "notice"
            /\ out'[2] \in {"allFailed", "noTranscription"}
            /\ \A res \in {"text", "null", "throw"} :
                 Report(out') # Report(<<"summary", res, stopReq[k].rd>>)]_vars

\* a session whose participants were converted without failure and gave no
\* text has been answered
C16_Witness ==
  \E s \in SessionIds :
    /\ out = <<"notice", "noTranscription", s, "-">>
    /\ mp3 # {}

\* ==================================================================== C17
\* the captures whose pipeline writes user_<u>_full.pcm of guild g
Writers(g, u) == {s \in 1..nSessions : guildOf[s] = g /\ StreamActive(s, u)}

\* C17: a raw file has at most one writer, and while processing has sized it
\* and converts it no capture of any session of the guild writes to it.
C17_RawFileOneWriterReadWhenClosed ==
  /\ \A g \in Guilds, u \in Users : Cardinality(Writers(g, u)) <= 1
  /\ \A k \in StopIds :
       stopReq[k].pc = "convert" => Writers(stopReq[k].g, CurUser(k)) = {}

\* ==================================================================== C18
\* the stop command finalizes the captures of session s in this step
StopFinalizes(s) ==
  \E k \in StopIds : /\ stopReq[k].pc = "stopping" /\ stopReq[k].rd = s
                      /\ stopReq'[k].pc = "waiting"

\* C18: an open capture is still open, with its flush timer and its file as
\* they were, after a silence of any length, and it stops being open only
\* when the participant leaves or the session is stopped (the write stream is
\* ended) or when its pipeline fails (the write stream is destroyed).
C18_OpenAcrossSilence ==
  [][\A s \in SessionIds, u \in Users :
       ws[s][u] = "open" =>
         /\ out' = <<"silence", s, u>> =>
               /\ ws'[s][u] = "open"
               /\ flushIntervals' = flushIntervals
               /\ files' = files
         /\ ws'[s][u] # "open" =>
               \/ out' = <<"finalizing", s, u>> /\ ws'[s][u] = "ending"
               \/ out' = <<"pipelineError", s, u>> /\ ws'[s][u] = "destroyed"
               \/ StopFinalizes(s) /\ ws'[s][u] = "ending"]_vars

\* a capture that has received audio is open after a silence
C18_Witness ==
  \E s \in SessionIds, u \in Users :
    /\ out = <<"silence", s, u>>
    /\ ws[s][u] = "open"
    /\ files[guildOf[s]][u] > 0

\* ==================================================================== C19
\* the voice-state listener of session s is told in this step that u has
\* left the recorded channel
LeaveEvent(s, u) == out' \in {<<"left", s, u>>, <<"finalizing", s, u>>}

\* the captures and flush timers of everyone but u in session s are as before
OthersUntouched(s, u) ==
  /\ \A v \in Users \ {u} :
       /\ ws'[s][v] = ws[s][v]
       /\ (v \in flushIntervals'[s]) = (v \in flushIntervals[s])
  /\ \A s2 \in SessionIds \ {s} :
       ws'[s2] = ws[s2] /\ flushIntervals'[s2] = flushIntervals[s2]
  /\ audioStreams' = audioStreams
  /\ files' = files

\* C19: when a participant whose capture is open leaves the recorded channel
\* while the guild is registered, the listener finalizes that capture in the
\* same step (flush timer cleared, write stream ended, a stream still ending
\* being destroyed by the force-close timer) and changes nothing of the other
\* participants' captures.
C19_LeaverFinalizedAtOnce ==
  /\ [][\A s \in SessionIds, u \in Users :
          (LeaveEvent(s, u) /\ ws[s][u] = "open"
             /\ activeRecordings[guildOf[s]] # 0)
            => /\ out' = <<"finalizing", s, u>>
               /\ u \notin flushIntervals'[s]
               /\ ws'[s][u] = "ending"
               /\ OthersUntouched(s, u)]_vars
  /\ [][\A s \in SessionIds, u \in Users :
          (ws[s][u] = "ending" /\ out' = <<"forceClosed", s, u>>)
            => ws'[s][u] = "destroyed" /\ OthersUntouched(s, u)]_vars

\* a participant has left and been finalized while another one's capture is
\* open with its flush timer running
C19_Witness ==
  \E s \in SessionIds, u \in Users, v \in Users :
    /\ out = <<"finalizing", s, u>>
    /\ ws[s][u] = "ending"
    /\ v # u /\ ws[s][v] = "open" /\ v \in flushIntervals[s]
    /\ activeRecordings[guildOf[s]] = s

\* ==================================================================== C20
\* C20: an error in the pipeline of participant u of session s destroys that
\* participant's write stream and clears that participant's flush timer; the
\* captures and flush timers of the other participants, the registry, the
\* connections and the voice-state listeners are as before.
C20_PipelineErrorIsolated ==
  [][\A s \in SessionIds, u \in Users :
       out' = <<"pipelineError", s, u>>
         => /\ ws'[s][u] = "destroyed"
            /\ u \notin flushIntervals'[s]
            /\ OthersUntouched(s, u)
            /\ activeRecordings' = activeRecordings
            /\ connDestroyed' = connDestroyed
            /\ sessVars' = sessVars
            /\ voiceStateHandler' = voiceStateHandler
            /\ stopReq' = stopReq]_vars

\* a pipeline has failed in a registered session whose connection is up while
\* another participant's capture is open with its flush timer running
C20_Witness ==
  \E s \in SessionIds, u \in Users, v \in Users :
    /\ out = <<"pipelineError", s, u>>
    /\ v # u /\ ws[s][v] = "open" /\ v \in flushIntervals[s]
    /\ activeRecordings[guildOf[s]] = s
    /\ connOf[s] \notin connDestroyed

\* ==================================================================== C21
\* sessions whose stop has destroyed the connection and deleted the entry
EndedByStop ==
  stopped \cup ({stopReq[k].rd : k \in {j \in StopIds :
                    stopReq[j].pc \notin {"idle", "stopping", "waiting"}}} \ {0})

\* C21: the registry holds no session that has ended by stop or by reconnect
\* exhaustion, and after a start attempt has reported failure it does not
\* hold the session record of that attempt.
C21_EndedScopeIsFree ==
  /\ \A g \in Guilds : activeRecordings[g] \notin (EndedByStop \cup exhausted)
  /\ \A g \in Guilds, s \in SessionIds :
       out = <<"startFailed", g, s>> => activeRecordings[g] # s

\* ==================================================================== C22
\* what the program holds for guild h: its registry entry, its raw files and
\* the participant map, write streams and flush timers of its sessions
ScopeState(h) ==
  <<activeRecordings[h], files[h],
    [s \in SessionIds |->
       IF s <= nSessions /\ guildOf[s] = h
         THEN <<audioStreams[s], ws[s], flushIntervals[s]>>
         ELSE <<>>]>>

\* the emissions that name a guild, the others name a session
GuildTags == {"joining", "alreadyRecording", "started", "startFailed",
              "noActiveRecording", "stopping", "stopFailed",
              "recordingStopped", "noAudioCaptured"}

\* the guild an emission belongs to
ScopeOf(o) == IF o[1] \in GuildTags THEN o[2] ELSE guildOf[o[2]]

\* C22: a command, a reply of a stop, a capture event or a failure of one
\* guild leaves the other guild's registry entry, participant maps, write
\* streams, flush timers and files unchanged; no step changes the state of
\* both guilds; and a request is answered 'Already recording' or 'No active
\* recording' only on account of its own guild's registry entry and connection.
C22_ScopesIsolated ==
  [][/\ \A h \in Guilds :
          (out' # Silent /\ h # ScopeOf(out')) => ScopeState(h)' = ScopeState(h)
     /\ \A k \in StopIds, h \in Guilds :
          (stopReq[k].pc # "idle" /\ stopReq'[k] # stopReq[k] /\ h # stopReq[k].g)
            => ScopeState(h)' = ScopeState(h)
     /\ \E g \in Guilds : \A h \in Guilds \ {g} : ScopeState(h)' = ScopeState(h)
     /\ \A g \in Guilds :
          /\ out' = <<"alreadyRecording", g>> => activeRecordings[g] # 0
          /\ out' = <<"noActiveRecording", g>>
               => activeRecordings[g] = 0 /\ GetVoiceConnection(g) = 0]_vars

\* the session of one guild has been stopped while the session of the other
\* guild is registered with an open capture
C22_Witness ==
  \E g \in Guilds, h \in Guilds, u \in Users :
    /\ g # h
    /\ out = <<"recordingStopped", g>>
    /\ activeRecordings[h] # 0
    /\ ws[activeRecordings[h]][u] = "open"
    /\ u \in flushIntervals[activeRecordings[h]]

\* ==================================================================== C23
\* a /record stop for guild g is handled in this step
StopRequest(g) == out' \in {<<"noActiveRecording", g>>, <<"stopping", g>>}

\* C23: a stop request for a guild without a registry entry is answered 'No
\* active recording'; the registry, the sessions, their captures and files
\* are as before and no stopRecording continuation or processing is started.
C23_StopWithoutSession ==
  [][\A g \in Guilds :
       (StopRequest(g) /\ activeRecordings[g] = 0)
         => /\ out' = <<"noActiveRecording", g>>
            /\ UNCHANGED <<activeRecordings, sessVars, connDestroyed, capVars,
                           flushIntervals, reconnectAttempts, voiceStateHandler,
                           exhausted, dirs, mkdirWait, files, joining, stopReq,
                           stopped, mp3>>]_vars

\* a stop request has been refused while the processing of the guild's
\* previous session is running
C23_Witness ==
  /\ out = <<"noActiveRecording", "g1">>
  /\ \E k \in StopIds : stopReq[k].g = "g1" /\ stopReq[k].pc \in {"proc", "convert"}
  /\ activeRecordings["g1"] = 0

\* ==================================================================== C24
\* C24: every unit returned by splitMessage(text, maxLength) has at most
\* maxLength characters.
C24_UnitsWithinMaxLength ==
  (call.fn = "splitMessage" /\ call.pc = "returned")
    => \A i \in 1..Len(call.chunks) : Len(call.chunks[i]) <= call.maxLength

\* ==================================================================== C25
\* the texts obtained by putting the units together again, a unit boundary
\* being a line break of the text, a space of the text that the split has
\* turned into a line break, or a break inside a word
RECURSIVE Joins(_)
Joins(cs) ==
  IF cs = <<>> THEN {<<>>}
  ELSE IF Len(cs) = 1 THEN {cs[1]}
  ELSE {cs[1] \o j \o r : j \in {<<>>, <<SP>>, <<NL>>}, r \in Joins(Tail(cs))}

\* the units one after the other
RECURSIVE Cat(_)
Cat(cs) == IF cs = <<>> THEN <<>> ELSE Head(cs) \o Cat(Tail(cs))

\* a string without its spaces and line breaks
NonWhite(s) == SelectSeq(s, LAMBDA c : c \notin White)

SplitReturned == call.fn = "splitMessage" /\ call.pc = "returned"

Deliverables(o) ==
  IF o[1] = "summary" /\ o[2] = "text" THEN {"summary"} ELSE {}

\* C26: when a participant's recording has been converted its audio file is
\* sent to the requester, and when the transcript has text and the summary
\* has been generated the requester is sent the transcription and the summary.
C26_ThreeDeliverables ==
  [][\A k \in StopIds :
       /\ (stopReq[k].pc = "convert" /\ stopReq'[k].pc \in {"whole", "split"})
            => "audio" \in Deliverables(out')
       /\ (LoopOver(k) /\ stopReq[k].allTx # <<>> /\ out' = <<"summary", "text", stopReq[k].rd>>)
            => {"transcription", "summary"} \subseteq Deliverables(out')]_vars

\* ==================================================================== C27
\* C27: when the processing of a session whose stop had participants to
\* finalize begins, every participant in the session's map has been finalized
\* by the stop: it is one of those whose write stream the stop has ended, and
\* its write stream is not open.
C27_AllFinalizedWhenProcessingBegins ==
  [][\A k \in StopIds :
       (stopReq[k].pc = "scheduled" /\ stopReq'[k].pc = "proc"
          /\ stopReq[k].fin # {})
         => \A u \in Range(stopReq'[k].order) :
              u \in stopReq[k].fin /\ ws[stopReq[k].rd][u] # "open"]_vars

\* ==================================================================== C28
\* the stopRecording calls whose processRecordings for session s is scheduled
\* or running
ProcessingOf(s) ==
  {k \in StopIds : stopReq[k].rd = s /\ stopReq[k].pc \in ProcessingPcs}

\* C28: at any time at most one processRecordings, with its one call of
\* summarizeText, is scheduled or running for a session, and none is for a
\* session whose stop has already run to its end.
C28_ProcessedOnce ==
  \A s \in SessionIds :
    /\ Cardinality(ProcessingOf(s)) <= 1
    /\ ProcessingOf(s) # {} => s \notin stopped

\* two stopRecording calls have read the same session record; the
\* processing started by one is converting while the other is still in its
\* finalization
C28_Witness ==
  \E s \in SessionIds, k \in StopIds, j \in StopIds :
    /\ j # k
    /\ stopReq[k].rd = s /\ stopReq[k].pc = "convert"
    /\ stopReq[j].rd = s /\ stopReq[j].pc \in {"stopping", "waiting"}

\* ==================================================================== C29
\* C29: a participant's merged MP3 is on disk only while that participant's
\* transcription is in progress; none is left between participants or after
\* the processing of the session.
C29_CompressedArtifactDeleted ==
  \A g \in Guilds, u \in Users :
    <<g, u>> \in mp3 =>
      \E k \in StopIds : /\ stopReq[k].g = g
                          /\ stopReq[k].pc \in {"whole", "split", "chunks"}
                          /\ CurUser(k) = u

\* ==================================================================== C30
\* C30: a raw file is removed only by the processing of its participant after
\* the conversion has left a non-empty MP3 and the transcription is over; the
\* step that reports a failed conversion leaves every raw file in place.
C30_RawKeptUntilConverted ==
  [][/\ \A g \in Guilds, u \in Users :
          (files[g][u] # Absent /\ files'[g][u] = Absent)
            => \E k \in StopIds :
                 /\ stopReq[k].g = g
                 /\ stopReq[k].pc \in {"whole", "split", "chunks"}
                 /\ CurUser(k) = u
                 /\ <<g, u>> \in mp3
     /\ \A k \in StopIds :
          (stopReq[k].pc = "convert" /\ stopReq'[k].pc = "proc")
            => files' = files]_vars

\* a conversion has failed and the participant's raw file, with audio in it,
\* is still on disk
C30_Witness ==
  \E s \in SessionIds, u \in Users :
    /\ out = <<"notice", "couldNotConvert", s, u>>
    /\ files[guildOf[s]][u] > 0

SpokePos(s, u) == CHOOSE i \in 1..Len(spoke[s]) : spoke[s][i] = u

\* C32: the blocks of the transcript of a session are in the order in which
\* their participants first started speaking in the session.
C32_TranscriptInFirstSpeechOrder ==
  \A k \in StopIds :
    \A i, j \in 1..Len(BlockUsers(k)) :
      i < j => SpokePos(stopReq[k].rd, BlockUsers(k)[i])
                 < SpokePos(stopReq[k].rd, BlockUsers(k)[j])

\* ==================================================================== C33
\* what a closing step sent because the report sink had rejected a message
SentAfterRejection(o) ==
  IF o[1] = "summary" /\ Len(o) = 5 THEN o[5]
  ELSE IF o[1] = "notice" /\ Len(o) = 6 THEN o[6]
  ELSE <<>>

\* C33: a rejection by the report sink changes nothing but the delivery of
\* that message: the step that reports a failed conversion counts one failure
\* and goes on to the next participant with the transcript as it was, and no
\* closing step reports a failure of the summary or of the processing because
\* a message was rejected.
C33_SinkFailureCaught ==
  [][\A k \in StopIds :
       LET r  == stopReq[k]
           r2 == stopReq'[k]
       IN /\ (r.pc = "convert" /\ r2.pc = "proc")
               => r2 = [NextUser(r) EXCEPT !.failed = r.failed + 1]
          /\ (LoopOver(k) /\ r2 # r) => SentAfterRejection(out') = <<>>]_vars

\* ==================================================================== C34
\* a session that has ended: its connection is destroyed (by a stop or by
\* reconnect exhaustion), which has taken its guild's entry out of the registry
Ended(s) == Live(s) /\ connOf[s] \in connDestroyed

\* C34: a flush timer is armed only for a participant whose pipeline is
\* active, the step that opens a capture arms its timer, and no timer is
\* armed for a session that has ended.
C34_FlushTimerWhilePipelineActive ==
  /\ [](\A s \in SessionIds :
          /\ \A u \in flushIntervals[s] : StreamActive(s, u)
          /\ Ended(s) => flushIntervals[s] = {})
  /\ [][\A s \in SessionIds, u \in Users :
          (u \notin Range(audioStreams[s]) /\ u \in Range(audioStreams'[s]))
            => u \in flushIntervals'[s]]_vars

\* ==================================================================== C35
\* a conversion has been started with its timeout
ConvertStarted == call.fn = "convert" /\ call.pc = "started"

\* C35: the timeout of a conversion is 90 s up to 180 MiB of raw input, 600 s
\* from 1200 MiB on and between the two 500 ms for every whole MiB plus the
\* whole milliseconds of the rest; it is never below 90 s nor above 600 s, and
\* of two conversions the one with the larger input has no shorter timeout.
C35_TimeoutBoundedMonotone ==
  ConvertStarted =>
    /\ call.timeoutMs >= MIN_TIMEOUT_MS /\ call.timeoutMs <= MAX_TIMEOUT_MS
    /\ call.mergedSize <= 180 * MiB => call.timeoutMs = MIN_TIMEOUT_MS
    /\ call.mergedSize >= 1200 * MiB => call.timeoutMs = MAX_TIMEOUT_MS
    /\ (call.mergedSize > 180 * MiB /\ call.mergedSize < 1200 * MiB)
         => /\ call.timeoutMs \div MS_PER_MiB = call.mergedSize \div MiB
            /\ (call.timeoutMs % MS_PER_MiB) * MiB <= (call.mergedSize % MiB) * MS_PER_MiB
            /\ (call.mergedSize % MiB) * MS_PER_MiB < ((call.timeoutMs % MS_PER_MiB) + 1) * MiB
    /\ (call.last.mergedSize > 0 /\ call.last.mergedSize <= call.mergedSize)
         => call.last.timeoutMs <= call.timeoutMs

\* a conversion whose timeout is strictly between the limits and was rounded
\* down, after a conversion of a smaller file that got the minimum
C35_Witness ==
  /\ ConvertStarted
  /\ call.timeoutMs > MIN_TIMEOUT_MS /\ call.timeoutMs < MAX_TIMEOUT_MS
  /\ ((call.mergedSize % MiB) * MS_PER_MiB) % MiB # 0
  /\ call.last.mergedSize > 0 /\ call.last.mergedSize < call.mergedSize
  /\ call.last.timeoutMs = MIN_TIMEOUT_MS

\* ==================================================================== C36
\* the segment indices from 0 up to, not including, the first one missing
RECURSIVE UpToFirstMissing(_, _)
UpToFirstMissing(existing, i) ==
  IF i \in existing THEN <<i>> \o UpToFirstMissing(existing, i + 1) ELSE <<>>

\* C36: a call of splitAudioIntoChunks whose splitter succeeded returns the
\* segment files on disk from part_000 up to the first missing index, in
\* ascending order; a call whose splitter failed returns the empty list.
C36_ReturnsExistingPrefix ==
  (call.fn = "splitAudioIntoChunks" /\ call.pc = "returned")
    => call.chunks = IF call.ok THEN UpToFirstMissing(call.onDisk, 0) ELSE <<>>

\* ==================================================================== C37
\* the entries of u among the captures a session has opened
Entries(q, u) == {i \in 1..Len(q) : q[i] = u}

\* no session of the guild has a capture of u open
NoneOpen(g, u) == \A t \in SessionsOf(g) : ws[t][u] # "open"

\* C37: for a participant who has an entry in a session's map no step adds
\* an entry, opens the write stream again or arms a flush timer again; and
\* while no capture of the participant is open in the guild the raw file
\* does not grow.
C37_NoResubscription ==
  [][\A s \in SessionIds, u \in Users :
       u \in Range(audioStreams[s])
         => /\ Entries(audioStreams'[s], u) = Entries(audioStreams[s], u)
            /\ ws[s][u] # "open" => ws'[s][u] # "open"
            /\ u \notin flushIntervals[s] => u \notin flushIntervals'[s]
            /\ NoneOpen(guildOf[s], u)
                 => files'[guildOf[s]][u] <= Max(files[guildOf[s]][u], 0)]_vars

\* a participant whose capture was finalized when they left the channel
\* starts speaking again in the same session, which is still recording: the
\* handler has returned at its guard
C37_Witness ==
  \E s \in SessionIds, u \in Users :
    /\ out = <<"subscriptionActive", s, u>>
    /\ activeRecordings[guildOf[s]] = s
    /\ StopOf(s) = {}
    /\ ws[s][u] \in {"ending", "closed"}
    /\ u \notin flushIntervals[s]

\* ==================================================================== C38
\* C38: the reconnect counter of every session is within 0..3; no step lowers
\* it and a step raises it by one at most; a session is torn down for failed
\* recoveries only by a step that finds the counter at 3 and leaves it there,
\* destroys the connection and deletes the guild's registry entry; and a
\* failed recovery that finds the counter below 3 tears nothing down.
C38_ReconnectCounter ==
  /\ [](\A s \in SessionIds :
          /\ reconnectAttempts[s] \in 0..MAX_RECONNECT_ATTEMPTS
          /\ s \in exhausted => reconnectAttempts[s] = MAX_RECONNECT_ATTEMPTS)
  /\ [][\A s \in SessionIds :
          /\ reconnectAttempts'[s] \in {reconnectAttempts[s], reconnectAttempts[s] + 1}
          /\ (s \notin exhausted /\ s \in exhausted')
               <=> (out' = <<"maxReconnect", s>>)
          /\ out' = <<"maxReconnect", s>>
               => /\ reconnectAttempts[s] = MAX_RECONNECT_ATTEMPTS
                  /\ reconnectAttempts'[s] = MAX_RECONNECT_ATTEMPTS
                  /\ connOf[s] \in connDestroyed' \ connDestroyed
                  /\ activeRecordings'[guildOf[s]] = 0
          /\ reconnectAttempts'[s] > reconnectAttempts[s]
               => /\ s \notin exhausted'
                  /\ connDestroyed' = connDestroyed
                  /\ activeRecordings' = activeRecordings]_vars

\* a session torn down by its fourth failed recovery
C38_Witness ==
  \E s \in SessionIds :
    /\ out = <<"maxReconnect", s>>
    /\ s \in exhausted
    /\ reconnectAttempts[s] = MAX_RECONNECT_ATTEMPTS
    /\ connOf[s] \in connDestroyed
    /\ activeRecordings[guildOf[s]] = 0

\* ==================================================================== C39
\* every other session of the guild of s that captured u is over: its
\* processing has returned, or it was torn down after failed recoveries
EarlierOver(s, u) ==
  \A t \in SessionsOf(guildOf[s]) \ {s} :
    u \in Range(audioStreams[t])
      => t \in exhausted \cup stopped

\* C39: a step that opens the capture of a participant in a session, when
\* every earlier session of the guild that captured them is over, leaves the
\* participant's raw file empty.
C39_NewCaptureStartsEmpty ==
  [][\A s \in SessionIds : \A u \in Users :
       (/\ u \notin Range(audioStreams[s])
        /\ u \in Range(audioStreams'[s])
        /\ EarlierOver(s, u))
         => files'[guildOf[s]][u] = 0]_vars
====
